---- MODULE Spec2Model ----
(***************************************************************************)
(* Model of reindeer's relational integrity layer (src/src/entity.rs,      *)
(* src/src/relation/mod.rs, src/src/relation/descriptor.rs) over the       *)
(* entity types of src/src/test/test_entities.rs.                          *)
(*                                                                         *)
(* The database is a record db = [trees, rels, family]:                    *)
(*   db.trees[t]   the sled tree of store t: a function key -> value       *)
(*   db.rels[t]    the tree "__$rel_<t>": key -> EntityRelations           *)
(*   db.family     the tree "__$family_rel": store name -> FamilyDescriptor*)
(* Keys are byte sequences, as the code hands them to sled.                *)
(* calls holds the calls that run concurrently, each with its position and  *)
(* its local variables; it is empty while calls are made one at a time.     *)
(***************************************************************************)
EXTENDS Integers, Sequences, FiniteSets, TLC

VARIABLES db, pre, last, calls

vars == <<db, pre, last, calls>>

-----------------------------------------------------------------------------
(* Key codec: AsBytes                                                      *)

u32_as_bytes(n) ==
    << (n \div 16777216) % 256, (n \div 65536) % 256, (n \div 256) % 256, n % 256 >>

\* String::as_bytes for the strings used as keys: their UTF-8 bytes.
string_as_bytes(s) ==
    CASE s = "id1"  -> << 105, 100, 49 >>
      [] s = "id10" -> << 105, 100, 49, 48 >>
      [] s = "id2"  -> << 105, 100, 50 >>
      [] s = "ID1"  -> << 73, 68, 49 >>

\* (K1, K2)::as_bytes : unseparated concatenation
pair_as_bytes(k1, k2) == k1 \o k2

\* u8::to_ascii_lowercase applied to every byte of a slice
to_ascii_lowercase(bytes) ==
    [i \in 1..Len(bytes) |->
        IF bytes[i] >= 65 /\ bytes[i] <= 90 THEN bytes[i] + 32 ELSE bytes[i]]

\* byte-wise prefix test, as sled's scan_prefix applies it
starts_with(key, prefix) ==
    /\ Len(prefix) <= Len(key)
    /\ \A i \in 1..Len(prefix) : key[i] = prefix[i]

\* lexicographic order of byte strings (sled's key order)
RECURSIVE bytes_less(_, _)
bytes_less(a, b) ==
    IF b = << >> THEN FALSE
    ELSE IF a = << >> THEN TRUE
    ELSE IF Head(a) # Head(b) THEN Head(a) < Head(b)
    ELSE bytes_less(Tail(a), Tail(b))

\* a finite set of keys as the ascending sequence a sled iterator yields
RECURSIVE sorted_keys(_)
sorted_keys(S) ==
    IF S = {} THEN << >>
    ELSE LET m == CHOOSE x \in S : \A y \in S \ {x} : bytes_less(x, y)
         IN  << m >> \o sorted_keys(S \ {m})

-----------------------------------------------------------------------------
(* Entity types of src/src/test/test_entities.rs                           *)

\* the store of GrandChildEntity, the child type of ChildEntity1 that the tests
\* of adopt_child use; it declares no sibling and no child tree
GrandChildStore == "grand_child_entity"

TreeNames ==
    {"entity_1", "entity_2", "entity_3", "child_entity_1", "child_entity_2"}
    \cup {GrandChildStore}

\* Entity::get_sibling_trees of each test entity
get_sibling_trees(t) ==
    CASE t = "entity_1" -> << <<"entity_3", "Cascade">> >>
      [] t = "entity_3" -> << <<"entity_1", "Error">> >>
      [] OTHER          -> << >>

\* Entity::get_child_trees of each test entity
get_child_trees(t) ==
    CASE t = "entity_2" -> << <<"child_entity_1", "Cascade">> >>
      [] t = "entity_3" -> << <<"child_entity_2", "Error">> >>
      [] OTHER          -> << >>

DeletionBehaviour == {"Error", "BreakLink", "Cascade"}

\* Option<String> : None is << >>, Some(n) is << n >>
None == << >>
Some(n) == << n >>

-----------------------------------------------------------------------------
(* Errors (src/src/error.rs)                                                *)

Ok == [kind |-> "Ok", message |-> << >>]

IntegrityError(text, tree) == [kind |-> "IntegrityError", message |-> << text, tree >>]

UnregisteredEntity(tree) ==
    [kind |-> "UnregisteredEntity",
     message |-> << "Trying to use unregistered entity", tree >>]

-----------------------------------------------------------------------------
(* sled trees                                                              *)

\* an empty tree / EntityRelations::default(): the function with empty domain
Empty == << >>

EmptyDb ==
    [trees |-> [t \in TreeNames |-> Empty],
     rels |-> [t \in TreeNames |-> Empty],
     family |-> Empty]

contains_key(db0, tree, key) == key \in DOMAIN db0.trees[tree]

\* Tree::scan_prefix, keys only, ascending
scan_prefix(db0, tree, prefix) ==
    sorted_keys({k \in DOMAIN db0.trees[tree] : starts_with(k, prefix)})

\* variant: the value is inserted only when the key holds no value yet
save_if_absent(db0, tree, key, value) ==
    [db0 EXCEPT !.trees[tree] = db0.trees[tree] @@ (key :> value)]

\* Tree::insert on an entity tree (Entity::save)
save(db0, tree, key, value) ==
    [db0 EXCEPT !.trees[tree] = (key :> value) @@ db0.trees[tree]]

\* Tree::remove on an entity tree
tree_remove(db0, tree, key) ==
    [db0 EXCEPT !.trees[tree] =
        [k \in (DOMAIN db0.trees[tree]) \ {key} |-> db0.trees[tree][k]]]

\* Tree::apply_batch of a batch of removals
apply_batch(db0, tree, keys) ==
    [db0 EXCEPT !.trees[tree] =
        [k \in (DOMAIN db0.trees[tree]) \ keys |-> db0.trees[tree][k]]]

\* Entity::register : saves the FamilyDescriptor of the type under its store name
register(db0, t) ==
    [db0 EXCEPT !.family =
        (t :> [tree_name |-> t,
               sibling_trees |-> get_sibling_trees(t),
               child_trees |-> get_child_trees(t)]) @@ db0.family]

-----------------------------------------------------------------------------
(* Relation descriptors (src/src/relation/descriptor.rs)                   *)
(* EntityRelations.related_entities is a map store name -> Vec of          *)
(* RelationDescriptor; it is modelled as a function whose DOMAIN is the    *)
(* set of store names present in the map.                                  *)

RelationDescriptor(key, deletion_behaviour, name) ==
    [key |-> key, deletion_behaviour |-> deletion_behaviour, name |-> name]

\* Vec::contains
contains(v, x) == \E i \in 1..Len(v) : v[i] = x

\* variant: a new edge is put in front of the edges of its store
add_related_by_key_front(self, tree_name, key, behaviour, name) ==
    IF tree_name \in DOMAIN self
    THEN IF contains(self[tree_name], RelationDescriptor(key, behaviour, name))
         THEN self
         ELSE [self EXCEPT ![tree_name] =
                  << RelationDescriptor(key, behaviour, name) >> \o @]
    ELSE (tree_name :> << RelationDescriptor(key, behaviour, name) >>) @@ self

\* EntityRelations::add_related_by_key
add_related_by_key(self, tree_name, key, behaviour, name) ==
    IF tree_name \in DOMAIN self
    THEN IF contains(self[tree_name], RelationDescriptor(key, behaviour, name))
         THEN self
         ELSE [self EXCEPT ![tree_name] =
                  Append(@, RelationDescriptor(key, behaviour, name))]
    ELSE (tree_name :> << RelationDescriptor(key, behaviour, name) >>) @@ self

\* EntityRelations::remove_related_by_key_and_tree_name
remove_related_by_key_and_tree_name(self, tree, e) ==
    IF tree \in DOMAIN self
    THEN [self EXCEPT ![tree] =
             SelectSeq(@, LAMBDA rd :
                 to_ascii_lowercase(rd.key) # to_ascii_lowercase(e))]
    ELSE self

-----------------------------------------------------------------------------
(* Relation graph (src/src/relation/mod.rs)                                *)

\* Relation::get_descriptor_with_key_and_tree_name
get_descriptor_with_key_and_tree_name(tree_name, e, db0) ==
    IF e \in DOMAIN db0.rels[tree_name] THEN db0.rels[tree_name][e] ELSE Empty

\* Relation::save_descriptor_with_key_and_tree_name
save_descriptor_with_key_and_tree_name(tree_name, e, r_d, db0) ==
    [db0 EXCEPT !.rels[tree_name] = (e :> r_d) @@ db0.rels[tree_name]]

\* Relation::create_link
create_link(t1, k1, t2, k2, e1_to_e2, name, db0) ==
    save_descriptor_with_key_and_tree_name(t1, k1,
        add_related_by_key(get_descriptor_with_key_and_tree_name(t1, k1, db0),
                           t2, k2, e1_to_e2, name),
        db0)

\* variant: only the link from e1 to e2 is written
create_one_way(t1, k1, t2, k2, e1_to_e2, e2_to_e1, name, db0) ==
    create_link(t1, k1, t2, k2, e1_to_e2, name, db0)

\* Relation::create
create(t1, k1, t2, k2, e1_to_e2, e2_to_e1, name, db0) ==
    create_link(t2, k2, t1, k1, e2_to_e1, name,
        create_link(t1, k1, t2, k2, e1_to_e2, name, db0))

\* Relation::remove_link_with_keys_and_tree_names (and remove_link_with_keys,
\* remove_link, which differ only in how the store names are passed)
remove_link_with_keys_and_tree_names(tree1, e1, tree2, e2, db0) ==
    save_descriptor_with_key_and_tree_name(tree1, e1,
        remove_related_by_key_and_tree_name(
            get_descriptor_with_key_and_tree_name(tree1, e1, db0), tree2, e2),
        db0)

\* Relation::remove
remove_relation(t1, k1, t2, k2, db0) ==
    remove_link_with_keys_and_tree_names(t2, k2, t1, k1,
        remove_link_with_keys_and_tree_names(t1, k1, t2, k2, db0))

\* The nested loop `for (tree_name, referers) in related_entities { for referer in
\* referers {..} }` as the sequence of <<tree_name, referer>> it visits.  ord is
\* the order in which the HashMap yields its keys.
RECURSIVE related_list(_, _)
related_list(descriptor, ord) ==
    IF ord = << >> THEN << >>
    ELSE (IF Head(ord) \in DOMAIN descriptor
          THEN [i \in 1..Len(descriptor[Head(ord)]) |->
                   << Head(ord), descriptor[Head(ord)][i] >>]
          ELSE << >>)
         \o related_list(descriptor, Tail(ord))

\* the loop of Relation::remove_entity_entry over the referers
RECURSIVE remove_referer_links(_, _, _, _)
remove_referer_links(referers, tree, key, db0) ==
    IF referers = << >> THEN db0
    ELSE remove_referer_links(Tail(referers), tree, key,
             remove_link_with_keys_and_tree_names(
                 Head(referers)[1], Head(referers)[2].key, tree, key, db0))

\* variant: the entry of the record is deleted without visiting its referers
remove_entity_entry_own_only(tree, key, db0, ord) ==
    [db0 EXCEPT !.rels[tree] =
        [k \in (DOMAIN db0.rels[tree]) \ {key} |-> db0.rels[tree][k]]]

\* Relation::remove_entity_entry
remove_entity_entry(tree, key, db0, ord) ==
    LET pruned == remove_referer_links(
                     related_list(get_descriptor_with_key_and_tree_name(tree, key, db0), ord),
                     tree, key, db0)
    IN  [pruned EXCEPT !.rels[tree] =
            [k \in (DOMAIN pruned.rels[tree]) \ {key} |-> pruned.rels[tree][k]]]

\* Entity::get_each_u8 on store tree_name: the records found under the keys, in
\* the order of the keys; a record is returned as <<store name, key>>
get_each_u8(keys, tree_name, db0) ==
    LET found == SelectSeq(keys, LAMBDA k : contains_key(db0, tree_name, k))
    IN  [i \in 1..Len(found) |-> << tree_name, found[i] >>]

\* Relation::get::<E1, E2> (Entity::get_related): e1 is <<store name, key>> and
\* e2_tree the store name of E2
get(e1, e2_tree, db0) ==
    LET referers == get_descriptor_with_key_and_tree_name(e1[1], e1[2], db0)
    IN  IF e2_tree \in DOMAIN referers
        THEN get_each_u8([i \in 1..Len(referers[e2_tree]) |-> referers[e2_tree][i].key],
                         e2_tree, db0)
        ELSE << >>

\* Entity::get_from_u8_array on store tree_name: Some(record) or None
get_from_u8_array(key, tree_name, db0) ==
    IF contains_key(db0, tree_name, key) THEN Some(<< tree_name, key >>) ELSE None

\* the filter of get_with_name and get_one_with_name on rd.name
name_matches(rd, name) == rd.name = Some(name)

\* variant: every edge of the store is taken, whatever its name
get_with_name_unfiltered(e1, name, e2_tree, db0) == get(e1, e2_tree, db0)

\* Relation::get_with_name::<E1, E2> (Entity::get_related_with_name)
get_with_name(e1, name, e2_tree, db0) ==
    LET referers == get_descriptor_with_key_and_tree_name(e1[1], e1[2], db0)
    IN  IF e2_tree \in DOMAIN referers
        THEN LET named == SelectSeq(referers[e2_tree], LAMBDA rd : name_matches(rd, name))
             IN  get_each_u8([i \in 1..Len(named) |-> named[i].key], e2_tree, db0)
        ELSE << >>

\* Relation::get_one_with_name::<E1, E2> (Entity::get_single_related_with_name)
get_one_with_name(e1, name, e2_tree, db0) ==
    LET referers == get_descriptor_with_key_and_tree_name(e1[1], e1[2], db0)
    IN  IF e2_tree \in DOMAIN referers
        THEN LET related_keys == referers[e2_tree]
             IN  IF \E i \in 1..Len(related_keys) : name_matches(related_keys[i], name)
                 THEN get_from_u8_array(related_keys[1].key, e2_tree, db0)
                 ELSE None
        ELSE None

-----------------------------------------------------------------------------
(* Integrity planner: Relation::can_be_deleted (src/src/relation/mod.rs)   *)
(* The function returns Result<()> and fills removable_entities through a  *)
(* &mut; the model returns both as [err, removable].  already_checked is   *)
(* only ever searched, so it is a set of <<store name, key>>.              *)

Result(err, removable) == [err |-> err, removable |-> removable]

\* already_checked.iter().any(|(tn, k)| tn == tree_name && k == e1)
is_already_checked(already_checked, tree_name, e1) ==
    << tree_name, e1 >> \in already_checked

\* new_already_checked: already_checked.to_owned() with (tree_name, e1) pushed
new_already_checked(already_checked, tree_name, e1) ==
    already_checked \cup {<< tree_name, e1 >>}

\* variant: the record whose check returned Ok is not scheduled
add_removable_forgotten(removable, other_tree_name, key) == removable

\* removable_entities.add_related_by_key(other, key, Cascade, None) after a
\* recursive call that returned Ok
add_removable(removable, other_tree_name, key) ==
    add_related_by_key(removable, other_tree_name, key, "Cascade", None)

\* variant: the cycle break reports the revisited node as a constraint
already_checked_blocks(removable) ==
    Result(IntegrityError("Constrained related entity exists in", "visited"), removable)

\* `return Ok(())` for a node that is already checked (cycle break)
already_checked_result(removable) == Result(Ok, removable)

\* variant: an Error free edge to a peer that is not already checked is let pass
related_error_ignored(tree_name, other_tree_name, removable) == Result(Ok, removable)

\* variant: the message is formatted with the store of the record under check
related_error_own_store(tree_name, other_tree_name, removable) ==
    Result(IntegrityError("Constrained related entity exists in", tree_name), removable)

\* the error of an Error free edge to a peer that is not already checked
related_error(tree_name, other_tree_name, removable) ==
    Result(IntegrityError("Constrained related entity exists in", other_tree_name),
           removable)

\* variant: an Error sibling declaration is not enforced
sibling_never_blocks(already_checked, other_tree_name, e1, db0) == FALSE

\* variant: an Error sibling blocks whenever it is stored, visited or not
sibling_blocks_when_stored(already_checked, other_tree_name, e1, db0) ==
    contains_key(db0, other_tree_name, e1)

\* the condition under which an Error sibling declaration raises the error
sibling_blocks(already_checked, other_tree_name, e1, db0) ==
    /\ ~ is_already_checked(already_checked, other_tree_name, e1)
    /\ contains_key(db0, other_tree_name, e1)

\* variant: an Error child declaration blocks from the second child on
child_blocks_after_first(keys) == Len(keys) > 1

\* the condition under which an Error child declaration raises the error:
\* `children.len() > 0`
child_blocks(keys) == Len(keys) > 0

RECURSIVE can_be_deleted(_, _, _, _, _, _)
RECURSIVE check_related(_, _, _, _, _, _, _)
RECURSIVE check_siblings(_, _, _, _, _, _, _)
RECURSIVE check_children(_, _, _, _, _, _, _)
RECURSIVE check_child_keys(_, _, _, _, _, _, _, _)

\* the loop over descriptor.related_entities (free relations)
check_related(edges, tree_name, e1, already_checked, removable, db0, ord) ==
    IF edges = << >> THEN Result(Ok, removable)
    ELSE LET other_tree_name == Head(edges)[1]
             rd == Head(edges)[2]
         IN  CASE rd.deletion_behaviour = "Error" ->
                    IF is_already_checked(already_checked, other_tree_name, rd.key)
                    THEN check_related(Tail(edges), tree_name, e1, already_checked,
                                       removable, db0, ord)
                    ELSE related_error(tree_name, other_tree_name, removable)
               [] rd.deletion_behaviour = "Cascade" ->
                    LET r == can_be_deleted(other_tree_name, rd.key,
                                 new_already_checked(already_checked, tree_name, e1),
                                 removable, db0, ord)
                    IN  IF r.err # Ok THEN r
                        ELSE check_related(Tail(edges), tree_name, e1, already_checked,
                                 add_removable(r.removable, other_tree_name, rd.key),
                                 db0, ord)
               [] OTHER ->
                    check_related(Tail(edges), tree_name, e1, already_checked,
                                  removable, db0, ord)

\* the loop over family_descriptor.sibling_trees
check_siblings(siblings, tree_name, e1, already_checked, removable, db0, ord) ==
    IF siblings = << >> THEN Result(Ok, removable)
    ELSE LET other_tree_name == Head(siblings)[1]
             behaviour == Head(siblings)[2]
         IN  CASE behaviour = "Error" ->
                    IF sibling_blocks(already_checked, other_tree_name, e1, db0)
                    THEN Result(IntegrityError("Constrained sibling entity exists in",
                                               other_tree_name), removable)
                    ELSE check_siblings(Tail(siblings), tree_name, e1, already_checked,
                                        removable, db0, ord)
               [] behaviour = "Cascade" ->
                    LET r == can_be_deleted(other_tree_name, e1,
                                 new_already_checked(already_checked, tree_name, e1),
                                 removable, db0, ord)
                    IN  IF r.err # Ok THEN r
                        ELSE check_siblings(Tail(siblings), tree_name, e1, already_checked,
                                 add_removable(r.removable, other_tree_name, e1),
                                 db0, ord)
               [] OTHER ->
                    check_siblings(Tail(siblings), tree_name, e1, already_checked,
                                   removable, db0, ord)

\* the loop `for key in keys` of a Cascade child tree
check_child_keys(keys, other_tree_name, tree_name, e1, already_checked, removable, db0, ord) ==
    IF keys = << >> THEN Result(Ok, removable)
    ELSE LET r == can_be_deleted(other_tree_name, Head(keys),
                      new_already_checked(already_checked, tree_name, e1),
                      removable, db0, ord)
         IN  IF r.err # Ok THEN r
             ELSE check_child_keys(Tail(keys), other_tree_name, tree_name, e1,
                      already_checked,
                      add_removable(r.removable, other_tree_name, Head(keys)),
                      db0, ord)

\* the loop over family_descriptor.child_trees
check_children(children, tree_name, e1, already_checked, removable, db0, ord) ==
    IF children = << >> THEN Result(Ok, removable)
    ELSE LET other_tree_name == Head(children)[1]
             behaviour == Head(children)[2]
         IN  CASE behaviour = "Error" ->
                    IF child_blocks(scan_prefix(db0, other_tree_name, e1))
                    THEN Result(IntegrityError("Constrained child entity exists in",
                                               other_tree_name), removable)
                    ELSE check_children(Tail(children), tree_name, e1, already_checked,
                                        removable, db0, ord)
               [] behaviour = "Cascade" ->
                    LET r == check_child_keys(scan_prefix(db0, other_tree_name, e1),
                                 other_tree_name, tree_name, e1, already_checked,
                                 removable, db0, ord)
                    IN  IF r.err # Ok THEN r
                        ELSE check_children(Tail(children), tree_name, e1,
                                 already_checked, r.removable, db0, ord)
               [] OTHER ->
                    check_children(Tail(children), tree_name, e1, already_checked,
                                   removable, db0, ord)

can_be_deleted(tree_name, e1, already_checked, removable_entities, db0, ord) ==
    IF is_already_checked(already_checked, tree_name, e1)
    THEN already_checked_result(removable_entities)
    ELSE LET descriptor == get_descriptor_with_key_and_tree_name(tree_name, e1, db0)
             r1 == check_related(related_list(descriptor, ord), tree_name, e1,
                                 already_checked, removable_entities, db0, ord)
         IN  IF r1.err # Ok THEN r1
             ELSE IF tree_name \notin DOMAIN db0.family
             THEN Result(UnregisteredEntity(tree_name), r1.removable)
             ELSE LET family_descriptor == db0.family[tree_name]
                      r2 == check_siblings(family_descriptor.sibling_trees, tree_name,
                                e1, already_checked, r1.removable, db0, ord)
                  IN  IF r2.err # Ok THEN r2
                      ELSE check_children(family_descriptor.child_trees, tree_name,
                               e1, already_checked, r2.removable, db0, ord)

-----------------------------------------------------------------------------
(* Deletion (src/src/entity.rs)                                            *)

\* the loop of Entity::pre_remove over to_be_removed.related_entities: one batch
\* of removals per store
RECURSIVE apply_batches(_, _, _)
apply_batches(to_be_removed, stores, db0) ==
    IF stores = {} THEN db0
    ELSE LET tree == CHOOSE t \in stores : TRUE
         IN  apply_batches(to_be_removed, stores \ {tree},
                 apply_batch(db0, tree,
                     {to_be_removed[tree][i].key : i \in 1..Len(to_be_removed[tree])}))

\* variant: the result of can_be_deleted is looked at only after the batches of
\* the records collected so far have been applied
pre_remove_batches_first(tree, key, db0, ord) ==
    LET r == can_be_deleted(tree, key, {}, Empty, db0, ord)
        batched == apply_batches(r.removable, DOMAIN r.removable, db0)
    IN  IF r.err # Ok THEN [err |-> r.err, db |-> batched]
        ELSE [err |-> Ok, db |-> remove_entity_entry(tree, key, batched, ord)]

\* Entity::pre_remove ; result [err, db]
pre_remove(tree, key, db0, ord) ==
    LET r == can_be_deleted(tree, key, {}, Empty, db0, ord)
    IN  IF r.err # Ok THEN [err |-> r.err, db |-> db0]
        ELSE [err |-> Ok,
              db |-> remove_entity_entry(tree, key,
                         apply_batches(r.removable, DOMAIN r.removable, db0), ord)]

\* Entity::remove / Entity::remove_from_u8_array ; result [err, db]
remove_from_u8_array(tree, key, db0, ord) ==
    LET r == pre_remove(tree, key, db0, ord)
    IN  IF r.err # Ok THEN r
        ELSE [err |-> Ok, db |-> tree_remove(r.db, tree, key)]

\* Entity::can_be_removed
can_be_removed(tree, key, db0, ord) ==
    can_be_deleted(tree, key, {}, Empty, db0, ord).err

\* u32::from_be_bytes
u32_from_be_bytes(b) == ((b[1] * 256 + b[2]) * 256 + b[3]) * 256 + b[4]

\* Tree::last : the greatest key of the tree, as Some(key) or None
tree_last(db0, tree) ==
    LET keys == sorted_keys(DOMAIN db0.trees[tree])
    IN  IF keys = << >> THEN None ELSE Some(keys[Len(keys)])

\* the increment Entity::save_child computes from the last key of the child store
next_increment(db0, child_tree) ==
    LET l == tree_last(db0, child_tree)
    IN  IF l = None THEN 0
        ELSE u32_from_be_bytes(SubSeq(l[1], Len(l[1]) - 3, Len(l[1]))) + 1

\* Entity::save_child ; result [key, db]
save_child(parent_key, child_tree, value, db0) ==
    LET key == pair_as_bytes(parent_key, u32_as_bytes(next_increment(db0, child_tree)))
    IN  [key |-> key, db |-> save(db0, child_tree, key, value)]

\* Entity::adopt_child ; result [err, db, key], key being the new key of the child
adopt_child(parent_key, child_tree, child_key, value, db0, ord) ==
    LET r == remove_from_u8_array(child_tree, child_key, db0, ord)
    IN  IF r.err # Ok THEN [err |-> r.err, db |-> r.db, key |-> child_key]
        ELSE LET c == save_child(parent_key, child_tree, value, r.db)
             IN  [err |-> Ok, db |-> c.db, key |-> c.key]

\* Entity::get_children / Entity::get_with_prefix : the records of the child
\* store whose key starts with the bytes of the parent key
get_children(parent_key, child_tree, db0) ==
    LET keys == scan_prefix(db0, child_tree, parent_key)
    IN  [i \in 1..Len(keys) |-> << child_tree, keys[i] >>]

-----------------------------------------------------------------------------
(* State machine.  db is the database; last is the last call with its      *)
(* arguments and its result and pre the database as it was before that     *)
(* call.  Every specification tracks the calls it studies; a call it does  *)
(* not track (track = FALSE) leaves only its name in last, and pre = db.   *)

\* a record is addressed as <<store name, key bytes>>
NoRecord == << >>

Call(op, a, b, p1, p2, name, err) ==
    [op |-> op, a |-> a, b |-> b, p1 |-> p1, p2 |-> p2, name |-> name, err |-> err]

\* a call that also returns a value
CallWith(op, a, b, name, err, res) ==
    [op |-> op, a |-> a, b |-> b, p1 |-> "-", p2 |-> "-", name |-> name, err |-> err,
     res |-> res]

NoCall == Call("open", NoRecord, NoRecord, "-", "-", None, Ok)

\* no call runs concurrently with another
NoCalls == << >>

Untracked(op) == Call(op, NoRecord, NoRecord, "-", "-", None, Ok)

stored(db0, r) == contains_key(db0, r[1], r[2])

relations(db0, r) == get_descriptor_with_key_and_tree_name(r[1], r[2], db0)

\* the edges towards record b in the relation descriptor of record a
edges_to(db0, a, b) ==
    LET d == relations(db0, a)
    IN  IF b[1] \in DOMAIN d
        THEN SelectSeq(d[b[1]], LAMBDA rd : rd.key = b[2])
        ELSE << >>

\* the edges of the relation descriptor of record r, as <<store name, descriptor>>
edge_set(db0, r) ==
    LET d == relations(db0, r)
    IN  UNION {{<< t, d[t][i] >> : i \in 1..Len(d[t])} : t \in DOMAIN d}

\* the records the relation descriptor of record r points to
peers(db0, r) == {<< e[1], e[2].key >> : e \in edge_set(db0, r)}

\* the stores record r has an edge to with the given deletion behaviour
edge_stores(db0, r, behaviour) ==
    {e[1] : e \in {x \in edge_set(db0, r) : x[2].deletion_behaviour = behaviour}}

\* the type stored in t has been registered
registered(db0, t) == t \in DOMAIN db0.family

\* every record that has a relation descriptor in db0
described(db0) == UNION {{<< t, k >> : k \in DOMAIN db0.rels[t]} : t \in TreeNames}

\* the elements of a sequence
elements(seq) == {seq[i] : i \in 1..Len(seq)}

\* the orders in which a HashMap keyed by store name may yield the store names
\* that occur in the relation descriptors of db0 (RelationMap is a HashMap with
\* FxHasher: its order follows from the hashes and the insertion history, which
\* the program does not control; every order is allowed here)
hash_orders(db0) ==
    LET used == UNION { UNION {DOMAIN db0.rels[t][k] : k \in DOMAIN db0.rels[t]}
                        : t \in TreeNames }
        n == Cardinality(used)
    IN  {o \in [1..n -> used] : \A i, j \in 1..n : o[i] = o[j] => i = j}

\* Entity::register called for every store of S
RECURSIVE register_all(_, _)
register_all(S, d) ==
    IF S = {} THEN d
    ELSE LET t == CHOOSE x \in S : TRUE IN register_all(S \ {t}, register(d, t))

\* set_up of the tests: every entity type registered
AllRegistered == register_all(TreeNames, EmptyDb)

RECURSIVE save_all(_, _)
save_all(S, d) ==
    IF S = {} THEN d
    ELSE LET r == CHOOSE x \in S : TRUE IN save_all(S \ {r}, save(d, r[1], r[2], 1))

\* Entity::create_relation between two stored records that have fewer than
\* MaxE edges to each other
CreateRelation(Recs, Names, MaxE, track) ==
    \E a \in Recs, b \in Recs, p1 \in DeletionBehaviour, p2 \in DeletionBehaviour,
       name \in Names :
        /\ a # b
        /\ stored(db, a) /\ stored(db, b)
        /\ Len(edges_to(db, a, b)) < MaxE /\ Len(edges_to(db, b, a)) < MaxE
        /\ db' = create(a[1], a[2], b[1], b[2], p1, p2, name, db)
        /\ pre' = IF track THEN db ELSE db'
        /\ calls' = calls
        /\ last' = IF track THEN Call("create_relation", a, b, p1, p2, name, Ok)
                   ELSE Untracked("create_relation")

\* Entity::remove_relation
RemoveRelation(Recs, track) ==
    \E a \in Recs, b \in Recs :
        /\ a # b
        /\ stored(db, a) /\ stored(db, b)
        /\ db' = remove_relation(a[1], a[2], b[1], b[2], db)
        /\ pre' = IF track THEN db ELSE db'
        /\ calls' = calls
        /\ last' = IF track THEN Call("remove_relation", a, b, "-", "-", None, Ok)
                   ELSE Untracked("remove_relation")

\* Entity::save
Save(Recs) ==
    \E r \in Recs :
        /\ db' = save(db, r[1], r[2], 1)
        /\ pre' = db'
        /\ calls' = calls
        /\ last' = Untracked("save")

\* Entity::register
Register(Stores) ==
    \E t \in Stores :
        /\ db' = register(db, t)
        /\ pre' = db'
        /\ calls' = calls
        /\ last' = Untracked("register")

\* Entity::adopt_child of the child record with key k of store child_tree, stored
\* or not, by a parent of Parents; the u32 part of the new key stays below
\* MaxIncrement.  The caller holds the child with the value it has in the store
\* (1 when it is not stored).
AdoptChild(Parents, child_tree, Keys, MaxIncrement) ==
    \E p \in Parents, k \in Keys :
        LET value == IF contains_key(db, child_tree, k) THEN db.trees[child_tree][k] ELSE 1
        IN  \E r \in {adopt_child(p[2], child_tree, k, value, db, ord) : ord \in hash_orders(db)} :
                /\ u32_from_be_bytes(SubSeq(r.key, Len(r.key) - 3, Len(r.key))) <= MaxIncrement
                /\ db' = r.db
                /\ pre' = db
                /\ calls' = calls
                /\ last' = CallWith("adopt_child", p, << child_tree, k >>, None, r.err,
                                    << child_tree, r.key >>)

\* Entity::create_relation with BreakLink in both directions, from a record of
\* From to a record of To that has fewer than MaxE edges from it
CreateBreakLinkRelation(From, To, Names, MaxE) ==
    \E a \in From, b \in To, name \in Names :
        /\ stored(db, a) /\ stored(db, b)
        /\ Len(edges_to(db, a, b)) < MaxE
        /\ db' = create(a[1], a[2], b[1], b[2], "BreakLink", "BreakLink", name, db)
        /\ pre' = db'
        /\ calls' = calls
        /\ last' = Untracked("create_relation")

\* Entity::get_related::<E>
GetRelated(Recs, Stores) ==
    \E a \in Recs, t \in Stores :
        /\ db' = db
        /\ pre' = db
        /\ calls' = calls
        /\ last' = CallWith("get_related", a, << t >>, None, Ok, get(a, t, db))

\* Entity::get_related_with_name::<E>
GetRelatedWithName(Recs, Stores, Names) ==
    \E a \in Recs, t \in Stores, n \in Names :
        /\ db' = db
        /\ pre' = db
        /\ calls' = calls
        /\ last' = CallWith("get_related_with_name", a, << t >>, Some(n), Ok,
                            get_with_name(a, n, t, db))

\* Entity::get_single_related_with_name::<E>
GetSingleRelatedWithName(Recs, Stores, Names) ==
    \E a \in Recs, t \in Stores, n \in Names :
        /\ db' = db
        /\ pre' = db
        /\ calls' = calls
        /\ last' = CallWith("get_single_related_with_name", a, << t >>, Some(n), Ok,
                            get_one_with_name(a, n, t, db))

\* Entity::remove
Remove(Recs) ==
    \E a \in Recs :
        \E r \in {remove_from_u8_array(a[1], a[2], db, ord) : ord \in hash_orders(db)} :
            /\ db' = r.db
            /\ pre' = db
            /\ calls' = calls
            /\ last' = Call("remove", a, NoRecord, "-", "-", None, r.err)

-----------------------------------------------------------------------------
(* Spec: free relations between three records of three stores, none the    *)
(* parent or sibling of another, and the removal of these records.  The    *)
(* application has registered every entity type but one, which it          *)
(* registers later.                                                        *)

\* relation names offered to create_relation besides None
MaxNames == 0

RelationNames == {None} \cup {Some(<< "rel1", "rel2", "rel3" >>[i]) : i \in 1..MaxNames}

FreeRecs ==
    { << "entity_2", string_as_bytes("id1") >>,
      << "child_entity_1", pair_as_bytes(string_as_bytes("id2"), u32_as_bytes(0)) >>,
      << "child_entity_2", pair_as_bytes(u32_as_bytes(1), u32_as_bytes(0)) >> }

\* a stored record that takes part in no relation and is never removed
Bystander == << "entity_2", string_as_bytes("id2") >>

\* the store whose type is registered late
LateStore == "child_entity_2"

Init ==
    /\ db = save_all(FreeRecs \cup {Bystander},
                     register_all(TreeNames \ {LateStore}, EmptyDb))
    /\ pre = db
    /\ calls = NoCalls
    /\ last = NoCall

Next ==
    \/ Register({LateStore})
    \/ CreateRelation(FreeRecs, RelationNames, 1, FALSE)
    \/ RemoveRelation(FreeRecs, FALSE)
    \/ Remove(FreeRecs)

Spec == Init /\ [][Next]_vars

-----------------------------------------------------------------------------
(* Properties of remove under Spec                                         *)

\* the last call was remove and it returned an error of the integrity planner
RemoveFailed ==
    /\ last.op = "remove"
    /\ last.err.kind \in {"IntegrityError", "UnregisteredEntity"}

\* C1: when remove returns an IntegrityError or an UnregisteredEntity error, also
\* one raised inside the recursion over Cascade edges, nothing has been written:
\* every record tree and every descriptor tree is as it was before the call.
C1_FailedRemoveWritesNothing == RemoveFailed => db = pre

\* a remove that failed although the start record has no Error edge of its own:
\* the error was raised in the recursion over one of its Cascade edges
C1_Witness ==
    /\ RemoveFailed
    /\ edge_stores(pre, last.a, "Error") = {}
    /\ edge_stores(pre, last.a, "Cascade") # {}
    /\ \A r \in FreeRecs : stored(db, r)

CascadeCycle(db0, S) ==
    \A r \in S :
        /\ stored(db0, r)
        /\ registered(db0, r[1])
        /\ peers(db0, r) = S \ {r}
        /\ \A e \in edge_set(db0, r) : e[2].deletion_behaviour = "Cascade"

\* C4: when three records are related in a cycle by edges that are Cascade in
\* both directions, remove of any of them returns Ok and removes exactly these
\* three records: every other record stays.
C4_CascadeCycleRemoved ==
    (last.op = "remove" /\ CascadeCycle(pre, FreeRecs)) =>
        /\ last.err = Ok
        /\ \A t \in TreeNames :
              DOMAIN db.trees[t] =
                  (DOMAIN pre.trees[t]) \ {r[2] : r \in {x \in FreeRecs : x[1] = t}}
        /\ \A r \in FreeRecs : ~ stored(db, r)
        /\ stored(db, Bystander)

\* a remove on the full Cascade cycle has returned
C4_Witness ==
    /\ last.op = "remove"
    /\ CascadeCycle(pre, FreeRecs)
    /\ last.err = Ok
    /\ stored(pre, Bystander)

\* C8: remove on a record whose type was never registered fails with
\* UnregisteredEntity, whatever free relations the record has, and writes nothing.
C8_UnregisteredTypeReported ==
    (last.op = "remove" /\ ~ registered(pre, last.a[1])) =>
        (last.err = UnregisteredEntity(last.a[1]) /\ db = pre)

\* C10: after a successful remove no relation descriptor holds an edge to a
\* record that is not stored.
C10_NoDanglingEdgeAfterRemove ==
    (last.op = "remove" /\ last.err = Ok) =>
        \A r \in described(db) : \A q \in peers(db, r) : stored(db, q)

-----------------------------------------------------------------------------
(* SpecFamily: the sibling and child declarations of the test entities.    *)
(* Entity1 1 and Entity3 1 are siblings, Entity3 is the parent type of     *)
(* ChildEntity2 and Entity2 of ChildEntity1; free relations are created    *)
(* between Entity1 1 and Entity2 "id1".  Every type is registered.         *)

E1k == << "entity_1", u32_as_bytes(1) >>
E3k == << "entity_3", u32_as_bytes(1) >>
P == << "entity_2", string_as_bytes("id1") >>
Q == << "entity_2", string_as_bytes("id10") >>

\* the child record of parent record p in store t with the u32 part n
child_of(t, p, n) == << t, pair_as_bytes(p[2], u32_as_bytes(n)) >>

FamilyRecs ==
    { E1k, E3k, P, Q,
      child_of("child_entity_2", E3k, 0),
      child_of("child_entity_2", << "entity_3", u32_as_bytes(2) >>, 0),
      child_of("child_entity_1", P, 0),
      child_of("child_entity_1", Q, 0) }

InitFamily ==
    /\ db = save_all(FamilyRecs, AllRegistered)
    /\ pre = db
    /\ calls = NoCalls
    /\ last = NoCall

NextFamily ==
    \/ Save(FamilyRecs)
    \/ CreateRelation({E1k, P}, {None}, 1, FALSE)
    \/ RemoveRelation({E1k, P}, FALSE)
    \/ Remove(FamilyRecs)

SpecFamily == InitFamily /\ [][NextFamily]_vars

\* record c is a child of record p: its key is the key of p followed by a u32
is_child_of(c, p) ==
    /\ \E i \in 1..Len(get_child_trees(p[1])) : get_child_trees(p[1])[i][1] = c[1]
    /\ Len(c[2]) = Len(p[2]) + 4
    /\ starts_with(c[2], p[2])

\* the stored children of record p
children(db0, p) == {c \in FamilyRecs : is_child_of(c, p) /\ stored(db0, c)}

\* the records one Cascade step away from r: by a Cascade free edge, a Cascade
\* sibling declaration or a Cascade child declaration
cascade_step(db0, r) ==
    {q \in FamilyRecs :
        \/ \E e \in edge_set(db0, r) :
              e[2].deletion_behaviour = "Cascade" /\ q = << e[1], e[2].key >>
        \/ \E i \in 1..Len(get_sibling_trees(r[1])) :
              get_sibling_trees(r[1])[i] = << q[1], "Cascade" >> /\ q[2] = r[2]
        \/ \E i \in 1..Len(get_child_trees(r[1])) :
              get_child_trees(r[1])[i] = << q[1], "Cascade" >> /\ is_child_of(q, r)}

RECURSIVE cascade_closure(_, _)
cascade_closure(db0, S) ==
    LET n == S \cup UNION {cascade_step(db0, r) : r \in S}
    IN  IF n = S THEN S ELSE cascade_closure(db0, n)

\* C3: a successful remove(a) removes a and, recursively, every record that is
\* reachable from a through Cascade free edges, Cascade sibling declarations
\* and Cascade child declarations.
C3_CascadeClosureRemoved ==
    (last.op = "remove" /\ last.err = Ok) =>
        \A r \in cascade_closure(pre, {last.a}) : ~ stored(db, r)

\* remove(Entity2 "id1") succeeded, reaching Entity1 1 by a Cascade free edge,
\* Entity3 1 by the sibling declaration of Entity1 and a child of Entity2 "id1"
C3_Witness ==
    /\ last.op = "remove" /\ last.err = Ok /\ last.a = P
    /\ stored(pre, P)
    /\ {E1k, E3k, child_of("child_entity_1", P, 0)} \subseteq
           {r \in cascade_closure(pre, {P}) : stored(pre, r)}
    /\ ~ stored(db, E3k)

\* C5: Entity1 declares Entity3 a Cascade sibling and Entity3 declares Entity1 an
\* Error sibling.  With both records of key k stored, remove(Entity1, k) returns
\* Ok and removes both (when no other constraint is met: Entity1 k has no Error
\* free edge and Entity3 k no stored child), and remove(Entity3, k) fails with the
\* IntegrityError that names the store of Entity1 and leaves everything as it was.
C5_SiblingPolicies ==
    (last.op = "remove" /\ stored(pre, E1k) /\ stored(pre, E3k)) =>
        /\ (/\ last.a = E1k
            /\ edge_stores(pre, E1k, "Error") = {}
            /\ children(pre, E3k) = {})
           => (last.err = Ok /\ ~ stored(db, E1k) /\ ~ stored(db, E3k))
        /\ last.a = E3k
           => /\ last.err = IntegrityError("Constrained sibling entity exists in",
                                           "entity_1")
              /\ db = pre

\* remove(Entity1, k) has removed both siblings
C5_Witness ==
    /\ last.op = "remove" /\ last.a = E1k /\ last.err = Ok
    /\ stored(pre, E1k) /\ stored(pre, E3k)
    /\ ~ stored(db, E1k) /\ ~ stored(db, E3k)

\* C6: Entity3 declares ChildEntity2 an Error child tree.  remove(Entity3, k)
\* fails with an IntegrityError and writes nothing whenever a child of k is
\* stored (the error names the child store unless the Error sibling is met
\* first); with no child stored the declaration does not block the removal.
C6_ErrorChildBlocksParent ==
    (last.op = "remove" /\ last.a = E3k) =>
        /\ children(pre, E3k) # {}
           => /\ last.err.kind = "IntegrityError"
              /\ db = pre
              /\ ~ stored(pre, E1k)
                 => last.err = IntegrityError("Constrained child entity exists in",
                                              "child_entity_2")
        /\ (children(pre, E3k) = {} /\ ~ stored(pre, E1k))
           => (last.err = Ok /\ ~ stored(db, E3k))

\* remove(Entity3, k) was refused because of a stored child of k
C6_Witness ==
    /\ last.op = "remove" /\ last.a = E3k
    /\ stored(pre, E3k) /\ ~ stored(pre, E1k)
    /\ children(db, E3k) # {}
    /\ last.err = IntegrityError("Constrained child entity exists in", "child_entity_2")
    /\ stored(db, E3k)

\* C7: Entity2 declares ChildEntity1 a Cascade child tree.  A successful
\* remove(Entity2, p) removes the children of p and no child of another parent
\* q, also when the bytes of p are a prefix of the bytes of q ("id1", "id10").
C7_OnlyOwnChildrenRemoved ==
    (last.op = "remove" /\ last.err = Ok /\ last.a[1] = "entity_2") =>
        \A c \in {x \in FamilyRecs : x[1] = "child_entity_1"} :
            stored(pre, c) => (stored(db, c) <=> ~ is_child_of(c, last.a))

-----------------------------------------------------------------------------
(* SpecCase: create_relation and remove_relation on two Entity2 records    *)
(* whose keys differ only in the case of their letters, and a third record. *)

PUpper == << "entity_2", string_as_bytes("ID1") >>
Peer == << "child_entity_2", pair_as_bytes(u32_as_bytes(1), u32_as_bytes(0)) >>

CaseRecs == {P, PUpper, Peer}

InitCase ==
    /\ db = save_all(CaseRecs, AllRegistered)
    /\ pre = db
    /\ calls = NoCalls
    /\ last = NoCall

NextCase ==
    \/ CreateRelation(CaseRecs, {None}, 1, TRUE)
    \/ RemoveRelation(CaseRecs, TRUE)

SpecCase == InitCase /\ [][NextCase]_vars

\* C9: after any sequence of create_relation, remove_relation and remove, record
\* b is related to record a exactly when a is related to b.
C9_MirrorInvariant ==
    \A r \in described(db) : \A q \in peers(db, r) : r \in peers(db, q)

-----------------------------------------------------------------------------
(* Further properties of remove under Spec                                 *)

\* the records of Spec that the last call removed
removed_records == {r \in FreeRecs \cup {Bystander} : stored(pre, r) /\ ~ stored(db, r)}

\* C11: after a successful remove no relation-descriptor entry exists for a
\* removed key, be it the key passed to remove or one removed by cascade.
C11_RemovedRecordsLoseDescriptor ==
    (last.op = "remove" /\ last.err = Ok) =>
        \A r \in removed_records : r \notin described(db)

-----------------------------------------------------------------------------
(* Properties of the relation calls under SpecCase                          *)

-----------------------------------------------------------------------------
(* SpecDup: create_relation called again for a pair that is already        *)
(* related, with any policies.                                             *)

DupRecs == {P, Peer}

InitDup ==
    /\ db = save_all(DupRecs, AllRegistered)
    /\ pre = db
    /\ calls = NoCalls
    /\ last = NoCall

NextDup ==
    \/ Save(DupRecs)
    \/ CreateRelation(DupRecs, {None}, 2, TRUE)
    \/ RemoveRelation(DupRecs, FALSE)
    \/ Remove(DupRecs)

SpecDup == InitDup /\ [][NextDup]_vars

\* the edges of record a to record b that carry the given name
named_edges_to(db0, a, b, name) ==
    SelectSeq(edges_to(db0, a, b), LAMBDA rd : rd.name = name)

\* C13: edges are deduplicated on (peer key, name): after create_relation(a, b,
\* p1, p2, name) each side holds exactly one edge of that identity, with the
\* policy of this call; so an Error edge created again as BreakLink no longer
\* blocks the removal of the record.
C13_OneEdgePerIdentity ==
    last.op = "create_relation" =>
        /\ named_edges_to(db, last.a, last.b, last.name) =
              << RelationDescriptor(last.b[2], last.p1, last.name) >>
        /\ named_edges_to(db, last.b, last.a, last.name) =
              << RelationDescriptor(last.a[2], last.p2, last.name) >>
        /\ last.p1 = "BreakLink"
           => \A ord \in hash_orders(db) :
                  can_be_removed(last.a[1], last.a[2], db, ord) = Ok

-----------------------------------------------------------------------------
(* BreakLink under Spec                                                    *)

\* record r has free edges, all of them BreakLink, and its type is registered:
\* in Spec no sibling or child constrains the records, so nothing else does
only_break_links(db0, r) ==
    /\ stored(db0, r)
    /\ registered(db0, r[1])
    /\ edge_set(db0, r) # {}
    /\ \A e \in edge_set(db0, r) : e[2].deletion_behaviour = "BreakLink"

\* C14: when the free edges of a are BreakLink and nothing else constrains a,
\* remove(a) returns Ok, every peer b of a stays stored with the value it had,
\* and the relation descriptor of b holds no edge to a any more.
C14_BreakLinkSevers ==
    (last.op = "remove" /\ only_break_links(pre, last.a)) =>
        /\ last.err = Ok
        /\ ~ stored(db, last.a)
        /\ \A b \in peers(pre, last.a) :
              /\ stored(pre, b) => (stored(db, b) /\ db.trees[b[1]][b[2]] = pre.trees[b[1]][b[2]])
              /\ last.a \notin peers(db, b)

\* remove(a) succeeded for a record a with a BreakLink edge to a stored record b
\* that had an edge back to a
C14_Witness ==
    /\ last.op = "remove" /\ last.err = Ok
    /\ only_break_links(pre, last.a)
    /\ \E b \in peers(pre, last.a) :
          stored(db, b) /\ last.a \in peers(pre, b) /\ last.a \notin peers(db, b)

-----------------------------------------------------------------------------
(* SpecAdopt: adopt_child of ChildEntity1 records by Entity2 "id1".  The   *)
(* children belong to Entity2 "id1" and Entity2 "id2"; one of them has a   *)
(* grandchild and can be related to an Entity3 record.                     *)

\* the greatest u32 part of a child key
MaxTail == 3

OldParent == << "entity_2", string_as_bytes("id2") >>
X == child_of("child_entity_1", OldParent, 0)
Z == << "entity_3", u32_as_bytes(0) >>
Grandchild == child_of(GrandChildStore, X, 0)

\* the children saved at the start and saved again by Save
AdoptChildren ==
    {X, child_of("child_entity_1", OldParent, 1), child_of("child_entity_1", P, 2)}

\* every child key of the two parents
ChildKeys ==
    {pair_as_bytes(p[2], u32_as_bytes(n)) : p \in {P, OldParent}, n \in 0..MaxTail}

InitAdopt ==
    /\ db = save_all({P, OldParent, Z, Grandchild} \cup AdoptChildren, AllRegistered)
    /\ pre = db
    /\ calls = NoCalls
    /\ last = NoCall

NextAdopt ==
    \/ Save(AdoptChildren)
    \/ CreateRelation({X, Z}, {None}, 1, FALSE)
    \/ AdoptChild({P}, "child_entity_1", ChildKeys, MaxTail)

SpecAdopt == InitAdopt /\ [][NextAdopt]_vars

\* the last call was adopt_child, it returned Ok and the child was stored
Adopted ==
    /\ last.op = "adopt_child"
    /\ last.err = Ok
    /\ stored(pre, last.b)

\* the key of the parent of a child key: the key without its u32 part
parent_key(k) == SubSeq(k, 1, Len(k) - 4)

\* C15: adopt_child preserves the free relations of the child: when child x and
\* record z are related by BreakLink edges both ways, after adopt_child
\* get_related(x) under the new key of x returns z, get_related(z) returns x
\* under its new key, and z has no edge to the old key of x.
C15_AdoptKeepsRelations ==
    (/\ Adopted
     /\ \E e \in edge_set(pre, last.b) : e = << Z[1], RelationDescriptor(Z[2], "BreakLink", None) >>
     /\ \E e \in edge_set(pre, Z) :
           e = << last.b[1], RelationDescriptor(last.b[2], "BreakLink", None) >>)
    => /\ Z \in elements(get(last.res, Z[1], db))
       /\ last.res \in elements(get(Z, last.res[1], db))
       /\ (last.res # last.b => last.b \notin peers(db, Z))

\* C16: adopt_child preserves the children of the child: get_children on the
\* child under its new key returns as many records as get_children on it
\* returned under its old key before the call.
C16_AdoptKeepsGrandchildren ==
    Adopted =>
        Len(get_children(last.res[2], GrandChildStore, db)) =
            Len(get_children(last.b[2], GrandChildStore, pre))

\* C17: adopt_child(new_parent, child) moves exactly one record: the children
\* of the old parent are its previous children without the adopted one, the
\* children of the new parent are its previous children, unchanged, and the
\* adopted one, and no record of another store is removed.
C17_AdoptMovesOneRecord ==
    (Adopted /\ parent_key(last.b[2]) # last.a[2]) =>
        /\ elements(get_children(parent_key(last.b[2]), last.b[1], db)) =
              elements(get_children(parent_key(last.b[2]), last.b[1], pre)) \ {last.b}
        /\ last.res \notin elements(get_children(last.a[2], last.b[1], pre))
        /\ elements(get_children(last.a[2], last.b[1], db)) =
              elements(get_children(last.a[2], last.b[1], pre)) \cup {last.res}
        /\ \A c \in elements(get_children(last.a[2], last.b[1], pre)) :
              db.trees[c[1]][c[2]] = pre.trees[c[1]][c[2]]
        /\ \A t \in TreeNames \ {last.b[1]} : db.trees[t] = pre.trees[t]

\* C18: adopt_child on a child whose key is not in the child store fails with
\* the error kind NotFound and writes nothing.
C18_AdoptMissingChildNotFound ==
    (last.op = "adopt_child" /\ ~ stored(pre, last.b)) =>
        (last.err.kind = "NotFound" /\ db = pre)

-----------------------------------------------------------------------------
(* SpecNames: named relations of Entity2 "id1" with two Entity3 records,   *)
(* and the getters of related records.                                     *)

Z2 == << "entity_3", u32_as_bytes(2) >>

QueryNames == {"rel1", "rel2"}

InitNames ==
    /\ db = save_all({P, Z, Z2}, AllRegistered)
    /\ pre = db
    /\ calls = NoCalls
    /\ last = NoCall

NextNames ==
    \/ CreateBreakLinkRelation({P}, {Z, Z2}, {None} \cup {Some(n) : n \in QueryNames}, 2)
    \/ RemoveRelation({P, Z, Z2}, FALSE)
    \/ GetRelated({P}, {"entity_3"})
    \/ GetRelatedWithName({P}, {"entity_3"}, QueryNames)
    \/ GetSingleRelatedWithName({P}, {"entity_3"}, QueryNames)

SpecNames == InitNames /\ [][NextNames]_vars

\* the stored records of store t that record a has an edge to
linked(db0, a, t) ==
    {b \in peers(db0, a) : b[1] = t /\ stored(db0, b)}

\* the stored records of store t that record a has an edge named n to
linked_with_name(db0, a, t, n) ==
    {b \in linked(db0, a, t) : named_edges_to(db0, a, b, Some(n)) # << >>}

\* C19: get_single_related_with_name::<E>(a, n) returns a record of E linked to
\* a by an edge named n, and None when there is no such edge; it never returns
\* a peer whose edges to a carry another name or no name.
C19_SingleRelatedHasName ==
    last.op = "get_single_related_with_name" =>
        /\ linked_with_name(db, last.a, last.b[1], last.name[1]) = {}
           => last.res = None
        /\ last.res # None
           => last.res[1] \in linked_with_name(db, last.a, last.b[1], last.name[1])

\* C20: get_related_with_name::<E>(a, n) returns exactly the stored records of E
\* that a has an edge named n to, and get_related::<E>(a) exactly the stored
\* records of E that a has an edge to, whatever its name.
C20_RelatedGetters ==
    /\ last.op = "get_related_with_name"
       => elements(last.res) = linked_with_name(db, last.a, last.b[1], last.name[1])
    /\ last.op = "get_related"
       => elements(last.res) = linked(db, last.a, last.b[1])

\* get_related_with_name returned one of the two records a is related to
C20_Witness ==
    /\ last.op = "get_related_with_name"
    /\ Cardinality(linked(db, last.a, last.b[1])) = 2
    /\ Cardinality(elements(last.res)) = 1

-----------------------------------------------------------------------------
(* Records and their serialisation.  Entity::to_ivec and Entity::from_ivec *)
(* call bincode::serialize and bincode::deserialize, which write a u32 as  *)
(* four bytes, least significant first, and a String as its length on      *)
(* eight bytes followed by its bytes.  A record is a TLA+ record with the  *)
(* fields of the struct; a String field holds the bytes of the string.     *)

u32_to_le_bytes(n) ==
    << n % 256, (n \div 256) % 256, (n \div 65536) % 256, (n \div 16777216) % 256 >>

u32_from_le_bytes(b) == ((b[4] * 256 + b[3]) * 256 + b[2]) * 256 + b[1]

\* bincode of a String (strings of the model are shorter than 2^32 bytes)
string_to_bincode(bytes) == u32_to_le_bytes(Len(bytes)) \o << 0, 0, 0, 0 >> \o bytes

\* the String that starts at byte `at` of a bincode value
string_from_bincode(v, at) ==
    SubSeq(v, at + 8, at + 7 + u32_from_le_bytes(SubSeq(v, at, at + 3)))

\* Entity::to_ivec for Entity1 {id: u32, prop1: String},
\* Entity2 {id: String, prop2: u32} and Entity3 {id: u32}
to_ivec(store, r) ==
    CASE store = "entity_1" -> u32_to_le_bytes(r.id) \o string_to_bincode(r.prop1)
      [] store = "entity_2" -> string_to_bincode(r.id) \o u32_to_le_bytes(r.prop2)
      [] store = "entity_3" -> u32_to_le_bytes(r.id)

\* Entity::from_ivec
from_ivec(store, v) ==
    CASE store = "entity_1" ->
            [id |-> u32_from_le_bytes(SubSeq(v, 1, 4)), prop1 |-> string_from_bincode(v, 5)]
      [] store = "entity_2" ->
            LET id == string_from_bincode(v, 1)
            IN  [id |-> id,
                 prop2 |-> u32_from_le_bytes(SubSeq(v, Len(id) + 9, Len(id) + 12))]
      [] store = "entity_3" -> [id |-> u32_from_le_bytes(SubSeq(v, 1, 4))]

\* get_key(r).as_bytes() : a u32 id gives its big-endian bytes, a String id its bytes
get_key(store, r) ==
    IF store = "entity_2" THEN r.id ELSE u32_as_bytes(r.id)

\* set_key
set_key(r, key) == [r EXCEPT !.id = key]

\* Entity::save of record r
save_entity(store, r, db0) == save(db0, store, get_key(store, r), to_ivec(store, r))

\* Entity::get / Entity::get_from_u8_array, returning the record: Some(r) or None
get_entity(store, key, db0) ==
    IF contains_key(db0, store, key)
    THEN Some(from_ivec(store, db0.trees[store][key]))
    ELSE None

\* variant: the next key is the number of records of the store
get_next_key_count(store, db0) == Cardinality(DOMAIN db0.trees[store])

\* AutoIncrementEntity::get_next_key
get_next_key(store, db0) ==
    LET l == tree_last(db0, store)
    IN  IF l = None THEN 0 ELSE u32_from_be_bytes(l[1]) + 1

\* AutoIncrementEntity::save_next ; result [key, rec, db], rec being the record
\* of the caller after the call
save_next(store, r, db0) ==
    LET next_key == get_next_key(store, db0)
        rec == set_key(r, next_key)
    IN  [key |-> next_key, rec |-> rec, db |-> save_entity(store, rec, db0)]

\* Entity::save of a record of Recs (pairs <<store, record>>), while each store
\* holds at most MaxR records
SaveEntity(Recs, MaxR) ==
    \E e \in Recs :
        LET store == e[1]
            key == get_key(store, e[2])
        IN  /\ contains_key(db, store, key) \/ Cardinality(DOMAIN db.trees[store]) < MaxR
            /\ db' = save_entity(store, e[2], db)
            /\ pre' = db
            /\ calls' = calls
            /\ last' = CallWith("save", << store, key >>, NoRecord, None, Ok, e[2])

\* Entity::get
GetEntity(Keys) ==
    \E a \in Keys :
        /\ db' = db
        /\ pre' = db
        /\ calls' = calls
        /\ last' = CallWith("get", a, NoRecord, None, Ok, get_entity(a[1], a[2], db))

\* AutoIncrementEntity::save_next of a record of Recs, while the store holds
\* fewer than MaxR records and the key stays at or below MaxK
SaveNext(Recs, MaxR, MaxK) ==
    \E e \in Recs :
        LET store == e[1]
            r == save_next(store, e[2], db)
        IN  /\ Cardinality(DOMAIN db.trees[store]) < MaxR
            /\ r.key <= MaxK
            /\ db' = r.db
            /\ pre' = db
            /\ calls' = calls
            /\ last' = CallWith("save_next", << store, u32_as_bytes(r.key) >>, NoRecord,
                                None, Ok, [key |-> r.key, rec |-> r.rec])

-----------------------------------------------------------------------------
(* SpecStore: records of Entity1 and Entity2 saved under chosen keys and   *)
(* under the next key, and read back, from an empty database.              *)

\* the most records a store holds
MaxRecords == 3

\* the largest key save_next may assign
MaxKey == 257

Hello == << 72, 105 >>
World == << 72, 111, 33 >>

Entity1Recs ==
    {<< "entity_1", [id |-> i, prop1 |-> s] >> : i \in {0, 255}, s \in {Hello, World}}

Entity2Recs ==
    {<< "entity_2", [id |-> string_as_bytes(i), prop2 |-> n] >> :
        i \in {"id1", "id10"}, n \in {3, 1000}}

StoreKeys ==
    {<< "entity_1", u32_as_bytes(i) >> : i \in {0, 1, 255, 256}}
    \cup {<< "entity_2", string_as_bytes(i) >> : i \in {"id1", "id10", "id2"}}

InitStore ==
    /\ db = AllRegistered
    /\ pre = db
    /\ calls = NoCalls
    /\ last = NoCall

NextStore ==
    \/ SaveEntity(Entity1Recs \cup Entity2Recs, MaxRecords)
    \/ SaveNext(Entity1Recs, MaxRecords, MaxKey)
    \/ GetEntity(StoreKeys)

SpecStore == InitStore /\ [][NextStore]_vars

\* the store holds under the other keys what it held before the last call
others_kept(a) ==
    \A t \in TreeNames : \A k \in DOMAIN pre.trees[t] :
        << t, k >> # a => /\ contains_key(db, t, k)
                          /\ db.trees[t][k] = pre.trees[t][k]

\* C21: after save(r), get(get_key(r)) returns r, whether or not the key held
\* another record before (last write wins) and without touching the records
\* under other keys; get of a key that holds no record returns None, and the
\* database is empty until the first save.
C21_SaveThenGet ==
    /\ last.op = "save"
       => /\ get_entity(last.a[1], last.a[2], db) = Some(last.res)
          /\ others_kept(last.a)
    /\ (last.op = "get" /\ ~ stored(db, last.a)) => last.res = None
    /\ (last.op = "get" /\ last.res # None)
       => get_key(last.a[1], last.res[1]) = last.a[2]
    /\ last = NoCall => \A t \in TreeNames : db.trees[t] = Empty

\* a save replaced the record that its key held
C21_Witness ==
    /\ last.op = "save"
    /\ stored(pre, last.a)
    /\ get_entity(last.a[1], last.a[2], pre) # Some(last.res)
    /\ get_entity(last.a[1], last.a[2], db) = Some(last.res)

\* the u32 keys of a store, as numbers
u32_keys(db0, store) == {u32_from_be_bytes(k) : k \in DOMAIN db0.trees[store]}

\* C22: save_next on a store of u32 keys assigns 0 when the store is empty and
\* otherwise the largest stored key plus one (for keys below u32::MAX), sets it
\* on the record, stores the record under it and returns it; the other records
\* are kept.  From an empty store, successive calls thus assign 0, 1, 2, ...
C22_SaveNextKey ==
    last.op = "save_next" =>
        LET store == last.a[1]
            keys == u32_keys(pre, store)
        IN  /\ keys = {} => last.res.key = 0
            /\ keys # {} => \E m \in keys : /\ \A k \in keys : k <= m
                                            /\ last.res.key = m + 1
            /\ last.res.rec.id = last.res.key
            /\ get_entity(store, u32_as_bytes(last.res.key), db) = Some(last.res.rec)
            /\ u32_keys(db, store) = keys \cup {last.res.key}
            /\ others_kept(last.a)

\* save_next assigned the key after a gap, past the first byte of the key
C22_Witness ==
    /\ last.op = "save_next"
    /\ last.res.key = 256
    /\ u32_keys(db, "entity_1") = {0, 255, 256}

-----------------------------------------------------------------------------
(* SpecChild: two Entity3 parents save children into the store of          *)
(* ChildEntity2, which starts empty, and read them back.                   *)

\* Entity::save_child by a parent of Parents, while the u32 part of the new key
\* stays at or below MaxIncrement
SaveChild(Parents, child_tree, MaxIncrement) ==
    \E p \in Parents :
        LET r == save_child(p[2], child_tree, 1, db)
        IN  /\ u32_from_be_bytes(SubSeq(r.key, Len(r.key) - 3, Len(r.key))) <= MaxIncrement
            /\ db' = r.db
            /\ pre' = db
            /\ calls' = calls
            /\ last' = CallWith("save_child", p, << child_tree >>, None, Ok,
                                << child_tree, r.key >>)

\* Entity::get_children::<E>
GetChildren(Parents, child_tree) ==
    \E p \in Parents :
        /\ db' = db
        /\ pre' = db
        /\ calls' = calls
        /\ last' = CallWith("get_children", p, << child_tree >>, None, Ok,
                            get_children(p[2], child_tree, db))

\* the largest u32 part save_child may assign under SpecChild
MaxChildTail == 3

ChildParents == {<< "entity_3", u32_as_bytes(n) >> : n \in {0, 1, 256}}

InitChild ==
    /\ db = save_all(ChildParents, AllRegistered)
    /\ pre = db
    /\ calls = NoCalls
    /\ last = NoCall

NextChild ==
    \/ SaveChild(ChildParents, "child_entity_2", MaxChildTail)
    \/ GetChildren(ChildParents, "child_entity_2")

SpecChild == InitChild /\ [][NextChild]_vars

\* the u32 part of a child key
tail(k) == u32_from_be_bytes(SubSeq(k, Len(k) - 3, Len(k)))

\* C23: when a parent p that has no child yet calls save_child twice in a row,
\* the first call returns the key (p,0), the second the key (p,1), and
\* get_children(p) is then the list of these two records, in that order.
C23_FirstTwoChildren ==
    [][(/\ last.op = "save_child"
        /\ last'.op = "save_child"
        /\ last'.a = last.a
        /\ get_children(last.a[2], last.b[1], pre) = << >>)
       => /\ last.res[2] = pair_as_bytes(last.a[2], u32_as_bytes(0))
          /\ last'.res[2] = pair_as_bytes(last.a[2], u32_as_bytes(1))
          /\ get_children(last.a[2], last.b[1], db')
                = << last.res, last'.res >>]_vars

\* C24: save_child(p, child) stores the child under (p, n), n being 0 when the
\* child store is empty and otherwise one more than the largest u32 part of the
\* keys of the child store; the key is new to the child store and every record
\* the store held is still there.
C24_SaveChildFreshKey ==
    last.op = "save_child" =>
        LET ct == last.b[1]
            tails == {tail(k) : k \in DOMAIN pre.trees[ct]}
            key == last.res[2]
        IN  /\ SubSeq(key, 1, Len(key) - 4) = last.a[2]
            /\ tails = {} => tail(key) = 0
            /\ tails # {} => \E m \in tails : /\ \A n \in tails : n <= m
                                              /\ tail(key) = m + 1
            /\ ~ contains_key(pre, ct, key)
            /\ DOMAIN db.trees[ct] = DOMAIN pre.trees[ct] \cup {key}

-----------------------------------------------------------------------------
(* Registration of entity types.  A type is given by what its store_name,  *)
(* get_sibling_trees and get_child_trees return; two types, or two         *)
(* versions of one type, may name the same store.                          *)

EntityType(store, sibling_trees, child_trees) ==
    [store_name |-> store,
     get_sibling_trees |-> sibling_trees,
     get_child_trees |-> child_trees]

\* the FamilyDescriptor that Entity::register builds for type T
family_descriptor_of(T) ==
    [tree_name |-> T.store_name,
     sibling_trees |-> T.get_sibling_trees,
     child_trees |-> T.get_child_trees]

\* variant: a store that has a family descriptor keeps it
register_type_if_absent(db0, T) ==
    [db0 EXCEPT !.family = db0.family @@ (T.store_name :> family_descriptor_of(T))]

\* Entity::register of type T: desc.save(db) inserts the descriptor under the
\* store name in the tree "__$family_rel"
register_type(db0, T) ==
    [db0 EXCEPT !.family = (T.store_name :> family_descriptor_of(T)) @@ db0.family]

\* Entity::register
RegisterType(Types) ==
    \E T \in Types :
        /\ db' = register_type(db, T)
        /\ pre' = db
        /\ calls' = calls
        /\ last' = CallWith("register", NoRecord, NoRecord, None, Ok, T)

-----------------------------------------------------------------------------
(* SpecRegistry: the types stored in entity_1 and entity_3 are registered  *)
(* again with other sibling declarations; Entity1 1, Entity3 1 and Entity2 *)
(* "id1" are saved, related (Entity2 "id1" with Entity1 1) and removed.    *)

\* versions of Entity1 and Entity3 that declare each other as sibling with
\* any deletion behaviour; Entity3 keeps its child declaration
SiblingTypes ==
    {EntityType("entity_1", << << "entity_3", p >> >>, << >>) : p \in DeletionBehaviour}
    \cup {EntityType("entity_3", << << "entity_1", p >> >>,
                     << << "child_entity_2", "Error" >> >>) : p \in DeletionBehaviour}

InitRegistry ==
    /\ db = AllRegistered
    /\ pre = db
    /\ calls = NoCalls
    /\ last = NoCall

NextRegistry ==
    \/ RegisterType(SiblingTypes)
    \/ Save({E1k, E3k, P})
    \/ CreateRelation({P, E1k}, {None}, 1, FALSE)
    \/ Remove({E1k, E3k, P})

SpecRegistry == InitRegistry /\ [][NextRegistry]_vars

\* C25: after register(T) the registry holds under store_name(T) the family
\* descriptor of T, with the sibling and child trees T declares and their
\* policies, whatever descriptor the store had before (the latest call wins);
\* the descriptors of the other stores and all records are untouched, and
\* registering T again changes nothing.
C25_RegisterLatestWins ==
    last.op = "register" =>
        LET T == last.res
        IN  /\ T.store_name \in DOMAIN db.family
            /\ db.family[T.store_name].tree_name = T.store_name
            /\ db.family[T.store_name].sibling_trees = T.get_sibling_trees
            /\ db.family[T.store_name].child_trees = T.get_child_trees
            /\ DOMAIN db.family = DOMAIN pre.family \cup {T.store_name}
            /\ \A t \in DOMAIN pre.family :
                  t # T.store_name => db.family[t] = pre.family[t]
            /\ db.trees = pre.trees /\ db.rels = pre.rels
            /\ register_type(db, T) = db

\* a register call replaced a descriptor with other declarations
C25_Witness ==
    /\ last.op = "register"
    /\ last.res.store_name \in DOMAIN pre.family
    /\ pre.family[last.res.store_name] # db.family[last.res.store_name]
    /\ db.family[last.res.store_name].sibling_trees = << << "entity_1", "Cascade" >> >>

\* stores t1 and t2 declare each other as sibling with policy Error
mutual_error(db0, t1, t2) ==
    /\ registered(db0, t1) /\ registered(db0, t2)
    /\ << t2, "Error" >> \in elements(db0.family[t1].sibling_trees)
    /\ << t1, "Error" >> \in elements(db0.family[t2].sibling_trees)

\* record a is one of the records of S or has a Cascade free edge to one
reaches(db0, a, S) ==
    \/ a \in S
    \/ \E e \in edge_set(db0, a) :
          e[2].deletion_behaviour = "Cascade" /\ << e[1], e[2].key >> \in S

\* C27: while Entity1 and Entity3 declare each other as sibling with policy
\* Error and Entity1 1 and Entity3 1 are both stored, a remove of either, or of
\* a record with a Cascade free edge to one of them, fails with an
\* IntegrityError and leaves the database as it was (every type is registered).
C27_MutualErrorSiblings ==
    (/\ last.op = "remove"
     /\ mutual_error(pre, "entity_1", "entity_3")
     /\ stored(pre, E1k) /\ stored(pre, E3k)
     /\ reaches(pre, last.a, {E1k, E3k}))
    => (last.err.kind = "IntegrityError" /\ db = pre)

\* the remove of Entity2 "id1" failed on the pair it reaches by a Cascade edge
C27_Witness ==
    /\ last.op = "remove"
    /\ last.a = P
    /\ stored(pre, P)
    /\ mutual_error(pre, "entity_1", "entity_3")
    /\ stored(pre, E1k) /\ stored(pre, E3k)
    /\ reaches(pre, P, {E1k, E3k})
    /\ edge_stores(pre, P, "Error") = {}
    /\ last.err.kind = "IntegrityError"

-----------------------------------------------------------------------------
(* SpecOrder: Entity2 "id1" is related to three Entity3 records in any      *)
(* order, to one of them also by a named relation, and the relations are   *)
(* removed again.                                                          *)

OrderPeers == {Z, E3k, Z2}

InitOrder ==
    /\ db = save_all({P} \cup OrderPeers, AllRegistered)
    /\ pre = db
    /\ calls = NoCalls
    /\ last = NoCall

NextOrder ==
    \/ CreateBreakLinkRelation({P}, OrderPeers, {None}, 2)
    \/ CreateBreakLinkRelation({P}, {Z}, {Some("rel1")}, 2)
    \/ RemoveRelation({P} \cup OrderPeers, TRUE)
    \/ GetRelated({P}, {"entity_3"})

SpecOrder == InitOrder /\ [][NextOrder]_vars

\* the list seq without the elements of S
without(seq, S) == SelectSeq(seq, LAMBDA x : x \notin S)

\* C26: the list get_related::<Entity3>(a) returns is in the order in which
\* the relations were created: create_relation leaves it as it is or appends
\* the new peer at its end, and remove_relation only takes entries out of it,
\* so that the others keep their order.
C26_RelatedInCreationOrder ==
    [][LET old == get(P, "entity_3", db)
           new == get(P, "entity_3", db')
       IN  /\ last'.op = "create_relation"
              => \/ new = old
                 \/ \E b \in OrderPeers : new = Append(old, b)
           /\ last'.op = "remove_relation"
              => /\ new = without(old, IF P \in {last'.a, last'.b}
                                        THEN {last'.a, last'.b} ELSE {})
                 /\ \A i, j \in 1..Len(new) : i < j =>
                       \E k, l \in 1..Len(old) :
                           k < l /\ old[k] = new[i] /\ old[l] = new[j]
           /\ last'.op = "get_related" => (new = old /\ last'.res = old)]_vars

\* the relation with the second of three peers was removed; the two others are
\* returned in the order of their creation, which is not the order of their keys
C26_Witness ==
    /\ last.op = "remove_relation"
    /\ get(P, "entity_3", pre) = << Z2, E3k, Z >>
    /\ get(P, "entity_3", db) = << Z2, Z >>

-----------------------------------------------------------------------------
(* Entity::filter_remove.  The filter is a predicate on records; it is     *)
(* given as the set of keys of the records it accepts.                     *)

\* a panic of the calling thread (Vec::remove: removal index out of bounds)
Panic(text) == [kind |-> "Panic", message |-> << text >>]

\* Entity::get_with_filter: the records of the store that f accepts, in the
\* order of the keys; a record is returned as its key
get_with_filter(store, f, db0) ==
    SelectSeq(sorted_keys(DOMAIN db0.trees[store]), LAMBDA k : k \in f)

\* the first loop of filter_remove from position i (counted from 1): every
\* record of res is removed, and the index (counted from 0) of each record
\* whose removal failed is pushed ; result [db, to_remove_from_result]
RECURSIVE remove_each(_, _, _, _, _, _)
remove_each(res, i, store, db0, ord, to_remove_from_result) ==
    IF i > Len(res) THEN [db |-> db0, to_remove_from_result |-> to_remove_from_result]
    ELSE LET r == remove_from_u8_array(store, res[i], db0, ord)
         IN  remove_each(res, i + 1, store, r.db, ord,
                 IF r.err # Ok THEN Append(to_remove_from_result, i - 1)
                 ELSE to_remove_from_result)

\* Vec::remove(index), index counted from 0
vec_remove(v, index) == SubSeq(v, 1, index) \o SubSeq(v, index + 2, Len(v))

\* the second loop of filter_remove: res.remove(index) for each pushed index, in
\* the order they were pushed; Vec::remove panics when index >= len
RECURSIVE remove_from_result(_, _)
remove_from_result(res, indices) ==
    IF indices = << >> THEN [err |-> Ok, res |-> res]
    ELSE IF Head(indices) >= Len(res)
         THEN [err |-> Panic("removal index should be < len"), res |-> res]
         ELSE remove_from_result(vec_remove(res, Head(indices)), Tail(indices))

\* Entity::filter_remove ; result [err, res, db]
filter_remove(store, f, db0, ord) ==
    LET res == get_with_filter(store, f, db0)
        removed == remove_each(res, 1, store, db0, ord, << >>)
        r == remove_from_result(res, removed.to_remove_from_result)
    IN  [err |-> r.err, res |-> r.res, db |-> removed.db]

\* Entity::filter_remove on a store, with a filter that accepts the records
\* under some of Keys
FilterRemove(store, Keys) ==
    \E f \in SUBSET Keys :
        \E r \in {filter_remove(store, f, db, ord) : ord \in hash_orders(db)} :
            /\ db' = r.db
            /\ pre' = db
            /\ calls' = calls
            /\ last' = CallWith("filter_remove", << store, f >>, NoRecord, None,
                                r.err, r.res)

-----------------------------------------------------------------------------
(* SpecFilter: three Entity3 records, each removable unless the Entity1    *)
(* record with its key is stored (Entity3 declares Entity1 as sibling with *)
(* policy Error), and filter_remove on the store of Entity3.               *)

FilterKeys == {u32_as_bytes(n) : n \in 0..2}

FilterRecs == {<< t, k >> : t \in {"entity_1", "entity_3"}, k \in FilterKeys}

InitFilter ==
    /\ db = AllRegistered
    /\ pre = db
    /\ calls = NoCalls
    /\ last = NoCall

NextFilter ==
    \/ Save(FilterRecs)
    \/ FilterRemove("entity_3", FilterKeys)

SpecFilter == InitFilter /\ [][NextFilter]_vars

\* C28: filter_remove(f) returns the records that f accepted and that it
\* removed: each returned record was stored, accepted by f and is no longer
\* stored; each accepted record that is no longer stored is returned; an
\* accepted record whose removal failed is still stored and not returned.
C28_FilterRemoveResult ==
    last.op = "filter_remove" =>
        LET store == last.a[1]
            matched == {k \in DOMAIN pre.trees[store] : k \in last.a[2]}
            removed == {k \in matched : ~ contains_key(db, store, k)}
        IN  /\ last.err = Ok
            /\ elements(last.res) = removed
            /\ Len(last.res) = Cardinality(removed)

-----------------------------------------------------------------------------
(* Entity::update.  It calls Tree::fetch_and_update of sled, which reads   *)
(* the value under the key, applies the closure to it and writes the       *)
(* result with compare_and_swap, starting again from the value found when  *)
(* another writer came in between.  Each read and each compare_and_swap is *)
(* one step of the calling thread.                                         *)

\* Tree::get: Some(value) or None
tree_get(db0, tree, key) ==
    IF contains_key(db0, tree, key) THEN Some(db0.trees[tree][key]) ELSE None

\* the value `new` written under key: Some(value) is inserted, None removes
tree_put(db0, tree, key, new) ==
    IF new = None THEN tree_remove(db0, tree, key)
    ELSE save(db0, tree, key, new[1])

\* variant: the new value is written whatever the key holds
swap_unconditionally(db0, tree, key, old, new) ==
    [swapped |-> TRUE, current |-> old, db |-> tree_put(db0, tree, key, new)]

\* Tree::compare_and_swap ; result [swapped, current, db], current being the
\* value found under the key
compare_and_swap(db0, tree, key, old, new) ==
    IF tree_get(db0, tree, key) = old
    THEN [swapped |-> TRUE, current |-> old, db |-> tree_put(db0, tree, key, new)]
    ELSE [swapped |-> FALSE, current |-> tree_get(db0, tree, key), db |-> db0]

\* the mutators f of the callers, on the field prop2 of Entity2; the values of
\* the model stay far below u32::MAX
Mutators == {"increment", "double"}

mutate(f, r) ==
    CASE f = "increment" -> [r EXCEPT !.prop2 = @ + 1]
      [] f = "double"    -> [r EXCEPT !.prop2 = @ * 2]

\* the closure Entity::update hands to fetch_and_update
update_closure(store, f, e) ==
    IF e = None THEN None
    ELSE Some(to_ivec(store, mutate(f, from_ivec(store, e[1]))))

Threads == {1, 2}

IdleCall == [pc |-> "idle", a |-> NoRecord, f |-> "-", current |-> None]

\* thread t calls Entity::update(key, f): fetch_and_update reads the value
UpdateStart(Recs) ==
    \E t \in Threads, a \in Recs, f \in Mutators :
        /\ calls[t].pc = "idle"
        /\ calls' = [calls EXCEPT ![t] =
                        [pc |-> "swap", a |-> a, f |-> f,
                         current |-> tree_get(db, a[1], a[2])]]
        /\ UNCHANGED << db, pre, last >>

\* thread t applies the closure to the value it holds and tries to swap the
\* result in; it returns when the swap succeeds and goes on with the value
\* found otherwise
UpdateSwap ==
    \E t \in Threads :
        /\ calls[t].pc = "swap"
        /\ LET c == calls[t]
               r == compare_and_swap(db, c.a[1], c.a[2], c.current,
                                     update_closure(c.a[1], c.f, c.current))
           IN  /\ db' = r.db
               /\ calls' = [calls EXCEPT ![t] =
                               IF r.swapped THEN [c EXCEPT !.pc = "returned"]
                               ELSE [c EXCEPT !.current = r.current]]
        /\ UNCHANGED << pre, last >>

-----------------------------------------------------------------------------
(* SpecUpdate: two threads each call update once, on Entity2 "id1" or on   *)
(* Entity2 "id2"; Entity2 "id1" is stored with some value of prop2 and     *)
(* Entity2 "id2" is not stored.                                            *)

InitUpdate ==
    /\ \E n \in {3, 5, 1000} :
          db = save_entity("entity_2", [id |-> P[2], prop2 |-> n], AllRegistered)
    /\ pre = db
    /\ calls = [t \in Threads |-> IdleCall]
    /\ last = NoCall

NextUpdate ==
    \/ UpdateStart({P, Bystander})
    \/ UpdateSwap

SpecUpdate == InitUpdate /\ [][NextUpdate]_vars

\* the records that the updates of the threads of S, applied one after the
\* other in some order, can make of record r
RECURSIVE updated_by(_, _)
updated_by(S, r) ==
    IF S = {} THEN {r}
    ELSE UNION {updated_by(S \ {t}, mutate(calls[t].f, r)) : t \in S}

\* C29: once the calls of update have returned, each stored record is its
\* initial value with the mutators of all the calls made on its key applied
\* one after the other in some order, none of them lost; an update on a key
\* that holds no record writes nothing.
C29_UpdateAtomic ==
    /\ DOMAIN db.trees["entity_2"] = DOMAIN pre.trees["entity_2"]
    /\ db.rels = pre.rels /\ db.family = pre.family
    /\ (\A t \in Threads : calls[t].pc = "returned")
       => get_entity(P[1], P[2], db)[1]
             \in updated_by({t \in Threads : calls[t].a = P},
                            get_entity(P[1], P[2], pre)[1])

\* both threads read Entity2 "id1" before either wrote: one has returned, the
\* other, with another mutator, still holds the value that has been replaced
C29_Witness ==
    \E t, u \in Threads :
        /\ calls[t].pc = "returned" /\ calls[t].a = P
        /\ calls[u].pc = "swap" /\ calls[u].a = P
        /\ calls[u].f # calls[t].f
        /\ calls[u].current = tree_get(pre, P[1], P[2])
        /\ calls[u].current # tree_get(db, P[1], P[2])

-----------------------------------------------------------------------------
(* Concurrent calls of Entity::remove.  A call plans with can_be_deleted,  *)
(* applies one batch per store, prunes the relation descriptors            *)
(* (Relation::remove_entity_entry: one remove_link per referer, then the   *)
(* entry of the record) and removes its record.  The plan and each write   *)
(* are one step of the calling thread; the steps of two threads interleave.*)

NotFound == [kind |-> "NotFound", message |-> << >>]

\* variant: removing a record that is no longer stored is reported
remove_result_if_found(old) == IF old = None THEN NotFound ELSE Ok

\* `Self::get_tree(db)?.remove(key)?; Ok(())` : the value Tree::remove returns,
\* the old value if any, is dropped
remove_result(old) == Ok

IdleRemove ==
    [pc |-> "idle", a |-> NoRecord, plan |-> Ok, to_be_removed |-> Empty,
     stores |-> << >>, referers |-> << >>, err |-> Ok]

\* thread t calls Entity::remove(a): Relation::can_be_deleted in pre_remove
RemoveStart(Recs) ==
    \E t \in Threads, a \in Recs :
        /\ calls[t].pc = "idle"
        /\ \E ord \in hash_orders(db) :
              LET r == can_be_deleted(a[1], a[2], {}, Empty, db, ord)
              IN  calls' = [calls EXCEPT ![t] =
                      IF r.err # Ok
                      THEN [IdleRemove EXCEPT !.pc = "returned", !.a = a,
                                              !.plan = r.err, !.err = r.err]
                      ELSE [IdleRemove EXCEPT !.pc = "batch", !.a = a,
                               !.to_be_removed = r.removable,
                               !.stores = SelectSeq(ord,
                                              LAMBDA s : s \in DOMAIN r.removable)]]
        /\ UNCHANGED << db, pre, last >>

\* the loop of pre_remove: thread t applies the batch of the next store; after
\* the last one remove_entity_entry reads the relation descriptor of the record
RemoveBatch ==
    \E t \in Threads :
        LET c == calls[t]
        IN  /\ c.pc = "batch"
            /\ IF c.stores # << >>
               THEN /\ db' = apply_batch(db, Head(c.stores),
                                {c.to_be_removed[Head(c.stores)][i].key :
                                     i \in 1..Len(c.to_be_removed[Head(c.stores)])})
                    /\ calls' = [calls EXCEPT ![t].stores = Tail(c.stores)]
               ELSE /\ db' = db
                    /\ \E ord \in hash_orders(db) :
                          calls' = [calls EXCEPT ![t].pc = "links",
                                       ![t].referers = related_list(
                                           get_descriptor_with_key_and_tree_name(
                                               c.a[1], c.a[2], db), ord)]
            /\ UNCHANGED << pre, last >>

\* the loop of remove_entity_entry: thread t removes the link the next referer
\* holds to the record; after the last one it removes the entry of the record
RemoveLinks ==
    \E t \in Threads :
        LET c == calls[t]
        IN  /\ c.pc = "links"
            /\ IF c.referers # << >>
               THEN /\ db' = remove_link_with_keys_and_tree_names(
                                Head(c.referers)[1], Head(c.referers)[2].key,
                                c.a[1], c.a[2], db)
                    /\ calls' = [calls EXCEPT ![t].referers = Tail(c.referers)]
               ELSE /\ db' = [db EXCEPT !.rels[c.a[1]] =
                                [k \in (DOMAIN db.rels[c.a[1]]) \ {c.a[2]} |->
                                    db.rels[c.a[1]][k]]]
                    /\ calls' = [calls EXCEPT ![t].pc = "record"]
            /\ UNCHANGED << pre, last >>

\* remove_from_u8_array: thread t removes its record and returns
RemoveRecord ==
    \E t \in Threads :
        LET c == calls[t]
        IN  /\ c.pc = "record"
            /\ db' = tree_remove(db, c.a[1], c.a[2])
            /\ calls' = [calls EXCEPT ![t].pc = "returned",
                            ![t].err = remove_result(tree_get(db, c.a[1], c.a[2]))]
            /\ UNCHANGED << pre, last >>

-----------------------------------------------------------------------------
(* SpecRace: the three records of FreeRecs, related by Cascade and         *)
(* BreakLink edges in one of several ways, and two threads that each       *)
(* remove one of the first two.                                            *)

RacePairs == {S \in SUBSET FreeRecs : Cardinality(S) = 2}

\* the policies of a relation between two records: none, or one or both
\* directions Cascade
RacePolicies ==
    {<< "-", "-" >>, << "Cascade", "BreakLink" >>, << "Cascade", "Cascade" >>}

\* create_relation for every pair of Pairs with the policies c gives it
RECURSIVE relate_all(_, _, _)
relate_all(Pairs, c, d) ==
    IF Pairs = {} THEN d
    ELSE LET S == CHOOSE x \in Pairs : TRUE
             a == CHOOSE x \in S : TRUE
             b == CHOOSE x \in S : x # a
         IN  relate_all(Pairs \ {S}, c,
                 IF c[S] = << "-", "-" >> THEN d
                 ELSE create(a[1], a[2], b[1], b[2], c[S][1], c[S][2], None, d))

InitRace ==
    /\ \E c \in [RacePairs -> RacePolicies] :
          db = relate_all(RacePairs, c, save_all(FreeRecs, AllRegistered))
    /\ pre = db
    /\ calls = [t \in Threads |-> IdleRemove]
    /\ last = NoCall

NextRace ==
    \/ RemoveStart(FreeRecs \ {Peer})
    \/ RemoveBatch
    \/ RemoveLinks
    \/ RemoveRecord

SpecRace == InitRace /\ [][NextRace]_vars

\* the records thread t planned to remove: its own and those of its batches
planned(t) ==
    {calls[t].a} \cup
    UNION {{<< s, calls[t].to_be_removed[s][i].key >> :
               i \in 1..Len(calls[t].to_be_removed[s])} :
           s \in DOMAIN calls[t].to_be_removed}

\* C30: when two remove calls run concurrently and both pass planning, both
\* return Ok and, once both have returned, the stored records are the initial
\* ones without the records either call planned to remove.
C30_ConcurrentRemoves ==
    (\A t \in Threads : calls[t].pc = "returned" /\ calls[t].plan = Ok)
    => /\ \A t \in Threads : calls[t].err = Ok
       /\ {r \in FreeRecs : stored(db, r)}
             = {r \in FreeRecs : stored(pre, r)} \ UNION {planned(t) : t \in Threads}

\* two calls in flight with overlapping plans: one has applied its batches and
\* is about to remove its record, the other still holds a batch with a record
\* that the first has already removed
C30_Witness ==
    \E t, u \in Threads :
        /\ calls[t].pc = "record"
        /\ calls[u].pc = "batch" /\ calls[u].stores # << >>
        /\ calls[t].a # calls[u].a
        /\ \E r \in planned(t) \cap planned(u) : stored(pre, r) /\ ~ stored(db, r)

-----------------------------------------------------------------------------
(* SpecSteps: one call of Entity::remove on one of the records of FreeRecs, *)
(* followed write by write.  Only the first thread calls; pre stays the     *)
(* database as it was before the call.                                      *)

InitSteps ==
    /\ \E c \in [RacePairs -> RacePolicies] :
          db = relate_all(RacePairs, c, save_all(FreeRecs, AllRegistered))
    /\ pre = db
    /\ calls = [t \in Threads |->
                   IF t = 1 THEN IdleRemove ELSE [IdleRemove EXCEPT !.pc = "absent"]]
    /\ last = NoCall

NextSteps ==
    \/ RemoveStart(FreeRecs)
    \/ RemoveBatch
    \/ RemoveLinks
    \/ RemoveRecord

SpecSteps == InitSteps /\ [][NextSteps]_vars

\* C31: during a successful remove every write to a relation descriptor (a
\* mirror edge taken out of a peer, the entry of a removed record deleted) comes
\* before the first removal of a record from an entity tree: when a step writes
\* a descriptor, the entity trees are still as they were before the call.
C31_DescriptorsPrunedFirst ==
    [][db'.rels # db.rels => db.trees = pre.trees]_vars

-----------------------------------------------------------------------------
(* Further properties of remove under SpecFamily                            *)

\* C32: the Cascade sibling declaration of Entity1 for Entity3 is followed only
\* when Entity3 holds the key: with no Entity3 record of its key stored, and no
\* free edge of its own, remove(Entity1, k) of a stored record can not fail
\* because of Entity3 (its Error child tree, for instance) and returns Ok.
C32_AbsentCascadeSiblingNotFollowed ==
    (/\ last.op = "remove"
     /\ last.a = E1k
     /\ stored(pre, E1k)
     /\ ~ stored(pre, E3k)
     /\ edge_set(pre, E1k) = {})
    => last.err = Ok

-----------------------------------------------------------------------------
(* Entity::can_be_removed as a call: the planner alone, without the writes  *)
(* of remove.  Relation::can_be_deleted is handed the database by shared    *)
(* reference and only reads it (Tree::get, contains_key, scan_prefix); what *)
(* it fills is the EntityRelations of its caller, which can_be_removed      *)
(* drops.                                                                   *)

\* variant: the check already applies the batches and prunes the descriptors
can_be_removed_writing(tree, key, db0, ord) == pre_remove(tree, key, db0, ord)

\* Entity::can_be_removed ; result [err, db], db being the database after the call
can_be_removed_call(tree, key, db0, ord) ==
    [err |-> can_be_removed(tree, key, db0, ord), db |-> db0]

\* Entity::can_be_removed
CanBeRemoved(Recs) ==
    \E a \in Recs :
        \E r \in {can_be_removed_call(a[1], a[2], db, ord) : ord \in hash_orders(db)} :
            /\ db' = r.db
            /\ pre' = db
            /\ calls' = calls
            /\ last' = Call("can_be_removed", a, NoRecord, "-", "-", None, r.err)

-----------------------------------------------------------------------------
(* SpecPlan: the records of SpecFamily with their sibling and child        *)
(* declarations and free relations between Entity1 1 and Entity2 "id1";    *)
(* ChildEntity2 is registered late.  Records are checked with              *)
(* can_be_removed and removed.                                             *)

InitPlan ==
    /\ db = save_all(FamilyRecs, register_all(TreeNames \ {LateStore}, EmptyDb))
    /\ pre = db
    /\ calls = NoCalls
    /\ last = NoCall

NextPlan ==
    \/ Register({LateStore})
    \/ Save(FamilyRecs)
    \/ CreateRelation({E1k, P}, {None}, 1, FALSE)
    \/ CanBeRemoved(FamilyRecs)
    \/ Remove(FamilyRecs)

SpecPlan == InitPlan /\ [][NextPlan]_vars

removed_family_records == {r \in FamilyRecs : stored(pre, r) /\ ~ stored(db, r)}

\* C34: whenever remove succeeds, every Error constraint of every removed record
\* r is met by the removal of the constrained peer: each peer r pointed to with
\* an Error free edge and each stored sibling of r in an Error sibling tree is no
\* longer stored, and r had no child in an Error child tree.
C34_ErrorConstraintsMet ==
    (last.op = "remove" /\ last.err = Ok) =>
        \A r \in removed_family_records :
            /\ \A e \in edge_set(pre, r) :
                  e[2].deletion_behaviour = "Error" => ~ stored(db, << e[1], e[2].key >>)
            /\ \A d \in elements(pre.family[r[1]].sibling_trees) :
                  d[2] = "Error" => ~ stored(db, << d[1], r[2] >>)
            /\ \A d \in elements(pre.family[r[1]].child_trees) :
                  d[2] = "Error" =>
                      \A k \in DOMAIN pre.trees[d[1]] : ~ starts_with(k, r[2])

\* remove(Entity2 "id1") succeeded and removed Entity1 1, which pointed back to
\* it with an Error free edge, and Entity3 1, of which Entity1 1 is an Error
\* sibling
C34_Witness ==
    /\ last.op = "remove" /\ last.err = Ok /\ last.a = P
    /\ {P, E1k, E3k} \subseteq removed_family_records
    /\ \E e \in edge_set(pre, E1k) :
          e[2].deletion_behaviour = "Error" /\ << e[1], e[2].key >> = P

-----------------------------------------------------------------------------
(* Error edges inside the planned set, under Spec                          *)

\* the records reached from the records of S through Cascade free edges
RECURSIVE cascade_set(_, _)
cascade_set(db0, S) ==
    LET n == S \cup {<< e[1], e[2].key >> :
                        e \in {x \in UNION {edge_set(db0, r) : r \in S} :
                                  x[2].deletion_behaviour = "Cascade"}}
    IN  IF n = S THEN S ELSE cascade_set(db0, n)

\* C35: remove(a) succeeds whenever every record that a record of the cascade
\* set of a points to with an Error free edge is itself in that cascade set,
\* wherever the traversal reaches it (a->b Cascade, a->c Cascade and b->c
\* Error: remove(a) removes a, b and c).  The records are stored and their
\* types registered.
C35_ErrorInsideCascadeSet ==
    (/\ last.op = "remove"
     /\ \A r \in FreeRecs : stored(pre, r) /\ registered(pre, r[1])
     /\ \A r \in cascade_set(pre, {last.a}) : \A e \in edge_set(pre, r) :
           e[2].deletion_behaviour = "Error"
           => << e[1], e[2].key >> \in cascade_set(pre, {last.a}))
    => /\ last.err = Ok
       /\ \A r \in cascade_set(pre, {last.a}) : ~ stored(db, r)

-----------------------------------------------------------------------------
(* Frame of remove_relation under SpecCase                                 *)

\* C36: remove_relation(a, b) deletes only the edges between a and b: the edges
\* of a and of b to every other record are as they were, also the edges to a
\* record of the store of the named one whose key differs from the named key
\* only in the case of its ASCII letters ("ID1" and "id1").
C36_OnlyNamedEdgesRemoved ==
    last.op = "remove_relation" =>
        \A q \in CaseRecs :
            /\ q # last.b => edges_to(db, last.a, q) = edges_to(pre, last.a, q)
            /\ q # last.a => edges_to(db, last.b, q) = edges_to(pre, last.b, q)

-----------------------------------------------------------------------------
(* Concurrent calls of Entity::create_relation.  Relation::create calls    *)
(* create_link for each direction; create_link loads the relation          *)
(* descriptor of its first record, adds the edge to the copy it holds and  *)
(* saves the copy.  Each load and each save is one step of the calling     *)
(* thread.                                                                 *)

IdleCreate ==
    [pc |-> "idle", a |-> NoRecord, b |-> NoRecord, p1 |-> "-", p2 |-> "-",
     descriptor |-> Empty]

\* thread t calls a.create_relation(b, p1, p2, None): create_link(a, b) loads
\* the descriptor of a
CreateStart(Pairs, Policies) ==
    \E t \in Threads, e \in Pairs, p1 \in Policies, p2 \in Policies :
        /\ calls[t].pc = "idle"
        /\ calls' = [calls EXCEPT ![t] =
                        [pc |-> "save1", a |-> e[1], b |-> e[2], p1 |-> p1, p2 |-> p2,
                         descriptor |->
                             get_descriptor_with_key_and_tree_name(e[1][1], e[1][2], db)]]
        /\ UNCHANGED << db, pre, last >>

\* create_link(b, a) of thread t loads the descriptor of b
CreateLoad ==
    \E t \in Threads :
        LET c == calls[t]
        IN  /\ c.pc = "load2"
            /\ calls' = [calls EXCEPT ![t].pc = "save2",
                            ![t].descriptor =
                                get_descriptor_with_key_and_tree_name(c.b[1], c.b[2], db)]
            /\ UNCHANGED << db, pre, last >>

\* thread t adds the edge to the descriptor it holds and saves it: for a in
\* create_link(a, b), then for b in create_link(b, a), after which it returns
CreateSave ==
    \E t \in Threads :
        LET c == calls[t]
        IN  /\ c.pc \in {"save1", "save2"}
            /\ IF c.pc = "save1"
               THEN /\ db' = save_descriptor_with_key_and_tree_name(c.a[1], c.a[2],
                                add_related_by_key(c.descriptor, c.b[1], c.b[2], c.p1, None),
                                db)
                    /\ calls' = [calls EXCEPT ![t].pc = "load2"]
               ELSE /\ db' = save_descriptor_with_key_and_tree_name(c.b[1], c.b[2],
                                add_related_by_key(c.descriptor, c.a[1], c.a[2], c.p2, None),
                                db)
                    /\ calls' = [calls EXCEPT ![t].pc = "returned"]
            /\ UNCHANGED << pre, last >>

-----------------------------------------------------------------------------
(* SpecLink: two threads each relate Entity2 "id1" with one of two Entity3 *)
(* records, in either direction.                                           *)

LinkPairs == {<< P, Z >>, << Z, P >>, << P, Z2 >>, << Z2, P >>}

InitLink ==
    /\ db = save_all({P, Z, Z2}, AllRegistered)
    /\ pre = db
    /\ calls = [t \in Threads |-> IdleCreate]
    /\ last = NoCall

NextLink ==
    \/ CreateStart(LinkPairs, {"BreakLink", "Cascade"})
    \/ CreateLoad
    \/ CreateSave

SpecLink == InitLink /\ [][NextLink]_vars

\* C37: two create_relation calls that share a record and run concurrently both
\* take effect: once both have returned, each of the two pairs is related in
\* both directions, so the descriptor of the shared record holds both new edges
\* and every edge has its mirror.
C37_ConcurrentCreatesKept ==
    (\A t \in Threads : calls[t].pc = "returned")
    => /\ \A t \in Threads :
             /\ calls[t].b \in peers(db, calls[t].a)
             /\ calls[t].a \in peers(db, calls[t].b)
       /\ \A r \in described(db) : \A q \in peers(db, r) : r \in peers(db, q)

-----------------------------------------------------------------------------
(* Concurrent calls of AutoIncrementEntity::save_next.  save_next calls    *)
(* get_next_key, which reads the last key of the tree, then sets the key   *)
(* on the record and saves it.  The read and the save are each one step of *)
(* the calling thread.                                                     *)

IdleNext == [pc |-> "idle", store |-> "-", rec |-> << >>, next_key |-> 0]

\* thread t calls save_next on a record of Recs: get_next_key
SaveNextStart(Recs) ==
    \E t \in Threads, e \in Recs :
        /\ calls[t].pc = "idle"
        /\ calls' = [calls EXCEPT ![t] =
                        [pc |-> "save", store |-> e[1], rec |-> e[2],
                         next_key |-> get_next_key(e[1], db)]]
        /\ UNCHANGED << db, pre, last >>

\* thread t sets the key on its record, saves it and returns the key
SaveNextSave ==
    \E t \in Threads :
        LET c == calls[t]
            rec == set_key(c.rec, c.next_key)
        IN  /\ c.pc = "save"
            /\ db' = save_entity(c.store, rec, db)
            /\ calls' = [calls EXCEPT ![t].pc = "returned", ![t].rec = rec]
            /\ UNCHANGED << pre, last >>

-----------------------------------------------------------------------------
(* SpecNext: two threads each call save_next once on an Entity1 record; the *)
(* store of Entity1 starts empty or with records saved by save_next.       *)

InitNext ==
    /\ \E S \in {<< >>, << Hello >>, << Hello, World >>} :
          db = [AllRegistered EXCEPT !.trees["entity_1"] =
                   [k \in {u32_as_bytes(i - 1) : i \in 1..Len(S)} |->
                       to_ivec("entity_1",
                               [id |-> u32_from_be_bytes(k), prop1 |-> S[u32_from_be_bytes(k) + 1]])]]
    /\ pre = db
    /\ calls = [t \in Threads |-> IdleNext]
    /\ last = NoCall

NextNext ==
    \/ SaveNextStart(Entity1Recs)
    \/ SaveNextSave

SpecNext == InitNext /\ [][NextNext]_vars

\* C38: get_next_key returns a key that the store does not use and save_next
\* never overwrites a record: once two save_next calls on the same type have
\* returned, also when they ran concurrently, the store holds the records it
\* held and the two new records, under two distinct keys.
C38_SaveNextDistinctKeys ==
    (\A t \in Threads : calls[t].pc = "returned")
    => /\ \A t, u \in Threads : t # u => calls[t].next_key # calls[u].next_key
       /\ \A t \in Threads :
             /\ ~ contains_key(pre, "entity_1", u32_as_bytes(calls[t].next_key))
             /\ get_entity("entity_1", u32_as_bytes(calls[t].next_key), db)
                   = Some(calls[t].rec)
       /\ \A k \in DOMAIN pre.trees["entity_1"] :
             tree_get(db, "entity_1", k) = tree_get(pre, "entity_1", k)

\* C39: remove(T, k) for a key k under which no record of the registered type T
\* is stored leaves every record tree as it was: no sibling with key k and no
\* record of a Cascade child tree whose key starts with the bytes of k is
\* removed.
C39_RemoveOfAbsentKeyRemovesNothing ==
    (/\ last.op = "remove"
     /\ registered(pre, last.a[1])
     /\ ~ stored(pre, last.a))
    => db.trees = pre.trees

-----------------------------------------------------------------------------
(* The key adopt_child assigns, under SpecAdopt                            *)

\* C40: after adopt_child(new_parent, child) of a stored child of another
\* parent, the child is stored under (new_parent, n), n being one more than
\* the u32 part of the last key, in byte order, that the child store held
\* before the call; the u32 part the child had under its old parent is not
\* used again.
C40_AdoptTakesNextTail ==
    (Adopted /\ parent_key(last.b[2]) # last.a[2]) =>
        LET l == tree_last(pre, last.b[1])
        IN  /\ last.res[2] = pair_as_bytes(last.a[2], u32_as_bytes(tail(l[1]) + 1))
            /\ stored(db, last.res)
            /\ tail(last.res[2]) # tail(last.b[2])

====
